---- MODULE Spec2Model ----
(***************************************************************************)
(* Provider routing and fallback core of open-voice: the settings store,   *)
(* the speech engine registry, the speech engine router, the LLM router    *)
(* and the LLM text processor.  Python str values are modelled as          *)
(* sequences of one-character strings so that strip(), lower() and the     *)
(* `in` substring test are computed, not assumed.                          *)
(***************************************************************************)
EXTENDS Integers, Sequences, FiniteSets, TLC

VARIABLES
    settings,          \* SettingsManager._settings
    emitted,           \* setting_changed signals emitted so far
    ui_exc,            \* exception the last settings/registry call raised to its caller
    engines,           \* SpeechEngineRegistry._engines
    reg_ops,           \* number of registry mutations after wiring
    pc,                \* position of the worker thread
    call,              \* trace of the current (or most recent) call
    ret,               \* what the most recent call returned or raised
    last_engine_info,  \* SpeechEngineRouter._last_engine_info
    last_llm_info,     \* LLMRouter._last_llm_info
    service,           \* VoiceRecordingService: is_recording and what it has called
    hotkey,            \* FnKeyHandler: key flags and callbacks fired
    threads            \* two threads calling the routers at the same time

vars == <<settings, emitted, ui_exc, engines, reg_ops, pc, call, ret, last_engine_info, last_llm_info,
          service, hotkey, threads>>

(***************************************************************************)
(* Bounds                                                                  *)
(***************************************************************************)
MaxConfigOps == 2

MaxResultLen == 2

\* callbacks MockHotkeyHandler delivers in a run
MaxCallbacks == 4

\* key events FnKeyHandler handles in a run
MaxKeyEvents == 5

(***************************************************************************)
(* Python str operations                                                   *)
(***************************************************************************)
Whitespace == {" ", "\t", "\n"}

LowerOf == [A |-> "a", B |-> "b", C |-> "c", D |-> "d", E |-> "e", F |-> "f", G |-> "g", H |-> "h", I |-> "i", J |-> "j", K |-> "k", L |-> "l", M |-> "m", N |-> "n", O |-> "o", P |-> "p", Q |-> "q", R |-> "r", S |-> "s", T |-> "t", U |-> "u", V |-> "v", W |-> "w", X |-> "x", Y |-> "y", Z |-> "z"]

lower_char(c) == IF c \in DOMAIN LowerOf THEN LowerOf[c] ELSE c

lower(s) == [i \in 1..Len(s) |-> lower_char(s[i])]

RECURSIVE lstrip(_)
lstrip(s) == IF s # <<>> /\ Head(s) \in Whitespace THEN lstrip(Tail(s)) ELSE s

RECURSIVE rstrip(_)
rstrip(s) == IF s # <<>> /\ s[Len(s)] \in Whitespace THEN rstrip(SubSeq(s, 1, Len(s) - 1)) ELSE s

strip(s) == rstrip(lstrip(s))

\* Python `sub in s`
contains(sub, s) == \E i \in 1..(Len(s) - Len(sub) + 1) : SubSeq(s, i, i + Len(sub) - 1) = sub

\* Python truthiness of a str
truthy(s) == s # <<>>

\* Python None / no exception
NoneVal == "None"

(***************************************************************************)
(* String literals of the source                                           *)
(***************************************************************************)
NO_AUDIO == <<"N", "o", " ", "a", "u", "d", "i", "o", " ", "d", "a", "t", "a", " ", "r", "e", "c", "e", "i", "v", "e", "d">>

NO_ENGINES == <<"N", "o", " ", "s", "p", "e", "e", "c", "h", " ", "e", "n", "g", "i", "n", "e", "s", " ", "a", "v", "a", "i", "l", "a", "b", "l", "e">>

ALL_FAILED == <<"S", "p", "e", "e", "c", "h", " ", "r", "e", "c", "o", "g", "n", "i", "t", "i", "o", "n", " ", "f", "a", "i", "l", "e", "d", " ", "-", " ", "a", "l", "l", " ", "e", "n", "g", "i", "n", "e", "s", " ", "u", "n", "a", "v", "a", "i", "l", "a", "b", "l", "e">>

error_indicators == <<
    <<"e", "r", "r", "o", "r", ":">>,
    <<"f", "a", "i", "l", "e", "d">>,
    <<"r", "e", "c", "o", "g", "n", "i", "t", "i", "o", "n", " ", "e", "r", "r", "o", "r">>,
    <<"s", "e", "r", "v", "i", "c", "e", " ", "e", "r", "r", "o", "r">>,
    <<"c", "o", "u", "l", "d", " ", "n", "o", "t", " ", "u", "n", "d", "e", "r", "s", "t", "a", "n", "d">>,
    <<"s", "p", "e", "e", "c", "h", " ", "n", "o", "t", " ", "c", "l", "e", "a", "r">> >>

(***************************************************************************)
(* Inputs: what an engine's transcribe() may return.  The named strings    *)
(* are the ones the engine adapters of the source return.                  *)
(***************************************************************************)
S_hello == <<"h", "e", "l", "l", "o">>

S_padded == <<" ", "h", "i", " ">>

S_cnu == <<"C", "o", "u", "l", "d", " ", "n", "o", "t", " ", "u", "n", "d", "e", "r", "s", "t", "a", "n", "d", " ", "a", "u", "d", "i", "o">>

S_snc == <<"S", "p", "e", "e", "c", "h", " ", "n", "o", "t", " ", "c", "l", "e", "a", "r">>

S_rec == <<"R", "e", "c", "o", "g", "n", "i", "t", "i", "o", "n", " ", "e", "r", "r", "o", "r", ":", " ", "x">>

S_svc == <<"S", "e", "r", "v", "i", "c", "e", " ", "e", "r", "r", "o", "r", ":", " ", "x">>

S_err == <<"E", "r", "r", "o", "r", ":", " ", "x">>

S_fail == <<"F", "a", "i", "l", "e", "d", " ", "t", "o", " ", "p", "r", "o", "c", "e", "s", "s", " ", "a", "u", "d", "i", "o", " ", "f", "o", "r", "m", "a", "t">>

S_upper == <<"i", "t", " ", "F", "A", "I", "L", "E", "D">>

S_badkey == <<"I", "n", "v", "a", "l", "i", "d", " ", "O", "p", "e", "n", "A", "I", " ", "A", "P", "I", " ", "k", "e", "y">>

RECURSIVE StringsUpTo(_, _)
StringsUpTo(alphabet, n) ==
    IF n = 0 THEN {<<>>}
    ELSE LET shorter == StringsUpTo(alphabet, n - 1)
         IN  shorter \cup {Append(s, c) : s \in shorter, c \in alphabet}

SpeechResults ==
    {S_hello, S_padded, S_cnu, S_snc, S_rec, S_svc, S_err, S_fail, S_upper, S_badkey}
        \cup StringsUpTo({" ", "a"}, MaxResultLen)

ApiKeys == {<<>>, <<" ">>, <<"s", "k">>}

AudioInputs == {<<>>, <<16, 39>>}

(***************************************************************************)
(* SettingsManager                                                         *)
(***************************************************************************)
valid_providers == {"openai", "groq", "local"}

ProviderInputs == {"openai", "local", "cerebras"}

\* settings and registry mutations still allowed in this run
ConfigBudget == Len(emitted) + reg_ops < MaxConfigOps

SettingsInit ==
    [selected_provider |-> "local",
     provider_api_keys |-> [p \in {"openai", "groq"} |-> <<>>],
     custom_instructions |-> <<>>]

\* get_provider_api_key: None for "local", else dict.get(provider, "")
get_provider_api_key(s, provider) ==
    IF provider = "local" THEN [is_none |-> TRUE, val |-> <<>>]
    ELSE IF provider \in DOMAIN s.provider_api_keys
         THEN [is_none |-> FALSE, val |-> s.provider_api_keys[provider]]
         ELSE [is_none |-> FALSE, val |-> <<>>]

\* get_openai_key: get_provider_api_key("openai") or ""
get_openai_key(s) ==
    LET k == get_provider_api_key(s, "openai")
    IN  IF k.is_none \/ ~truthy(k.val) THEN <<>> ELSE k.val

set_selected_provider(provider) ==
    /\ IF provider \notin valid_providers
       THEN /\ ui_exc' = "ValueError"
            /\ UNCHANGED <<settings, emitted>>
       ELSE /\ ConfigBudget
            /\ settings' = [settings EXCEPT !.selected_provider = provider]
            /\ emitted' = Append(emitted, <<"selected_provider", provider>>)
            /\ ui_exc' = NoneVal
    /\ UNCHANGED <<threads, service, hotkey, engines, reg_ops, pc, call, ret, last_engine_info, last_llm_info>>

set_provider_api_key(provider, api_key) ==
    /\ IF provider = "local"
       THEN UNCHANGED <<settings, emitted>>
       ELSE /\ ConfigBudget
            /\ settings' = [settings EXCEPT !.provider_api_keys =
                   [p \in DOMAIN @ \cup {provider} |-> IF p = provider THEN api_key ELSE @[p]]]
            /\ emitted' = Append(emitted, <<"provider_api_key_" \o provider, api_key>>)
    /\ ui_exc' = NoneVal
    /\ UNCHANGED <<threads, service, hotkey, engines, reg_ops, pc, call, ret, last_engine_info, last_llm_info>>

(***************************************************************************)
(* Call records                                                            *)
(***************************************************************************)
Returned(v) == [kind |-> "return", val |-> v, exc |-> NoneVal]

Raised(e) == [kind |-> "raise", val |-> <<>>, exc |-> e]

Pending == [kind |-> "pending", val |-> <<>>, exc |-> NoneVal]

\* op: the handler; cands/idx: the candidate list and the loop position;
\* tried: candidates whose creator ran; invoked: candidates whose
\* transcribe()/generate() ran; kinds: how each tried candidate ended;
\* result: what the last invoked candidate returned; settings_reads,
\* registry_calls, writes: reads of the settings, calls of the registry and
\* writes of the diagnostics record; raised: the collaborator call that raised;
\* provider_at_call: the selected provider in the settings when the call began;
\* response: what the backend answered the last invoked cloud LLM client;
\* args: the arguments of a registry call
NoCall ==
    [op |-> "none", input |-> <<>>, prompt |-> <<>>, cands |-> <<>>, idx |-> 0,
     tried |-> <<>>, invoked |-> <<>>, kinds |-> <<>>, result |-> <<>>,
     settings_reads |-> 0, registry_calls |-> 0, writes |-> 0, raised |-> "none",
     provider_at_call |-> "none", response |-> "none", args |-> <<>>]

(***************************************************************************)
(* SpeechEngineRegistry: _engines is an insertion-ordered dict             *)
(* name -> (factory, priority)                                             *)
(***************************************************************************)
EngineNames == {"openai", "google", "mock", "local_whisper"}

Factories == {"OpenAIWhisperFactory", "GoogleSpeechFactory", "MockSpeechFactory", "LocalWhisperFactory"}

\* the factory each name is wired or documented with
factory_of(name) ==
    CASE name = "openai" -> "OpenAIWhisperFactory"
      [] name = "google" -> "GoogleSpeechFactory"
      [] name = "mock" -> "MockSpeechFactory"
      [] name = "local_whisper" -> "LocalWhisperFactory"

Priorities == {10, 100}

EnginesInit ==
    << [name |-> "openai", factory |-> "OpenAIWhisperFactory", priority |-> 100],
       [name |-> "local_whisper", factory |-> "LocalWhisperFactory", priority |-> 10] >>

Registered(reg) == {reg[i].name : i \in 1..Len(reg)}

RECURSIVE Without(_, _)
Without(reg, name) ==
    IF reg = <<>> THEN <<>>
    ELSE IF Head(reg).name = name THEN Without(Tail(reg), name)
    ELSE <<Head(reg)>> \o Without(Tail(reg), name)

\* fault variant: a registration is always added at the end
dict_set_appends(reg, name, factory, priority) ==
    Append(reg, [name |-> name, factory |-> factory, priority |-> priority])

\* dict assignment: an existing key keeps its position, a new key goes last
dict_set(reg, name, factory, priority) ==
    IF name \in Registered(reg)
    THEN [i \in 1..Len(reg) |-> IF reg[i].name = name
                                THEN [name |-> name, factory |-> factory, priority |-> priority]
                                ELSE reg[i]]
    ELSE Append(reg, [name |-> name, factory |-> factory, priority |-> priority])

\* the entry a registered name has in the registry
get_entry(reg, name) == reg[CHOOSE i \in 1..Len(reg) : reg[i].name = name]

\* the priority a registered name has in the registry
get_engine_priority(reg, name) == get_entry(reg, name).priority

\* lines 14-22; ValueError for an object that is no ISpeechEngineFactory
register_engine(name, factory, priority) ==
    /\ pc = "idle"
    /\ LET c == [NoCall EXCEPT !.op = "register_engine",
                               !.args = [name |-> name, factory |-> factory, priority |-> priority]]
       IN  IF factory \notin Factories
           THEN /\ ui_exc' = "ValueError"
                /\ ret' = Raised("ValueError")
                /\ call' = [c EXCEPT !.raised = "register_engine"]
                /\ UNCHANGED <<engines, reg_ops>>
           ELSE /\ ConfigBudget
                /\ engines' = dict_set(engines, name, factory, priority)
                /\ reg_ops' = reg_ops + 1
                /\ ui_exc' = NoneVal
                /\ ret' = Returned(<<>>)
                /\ call' = c
    /\ UNCHANGED <<threads, service, hotkey, settings, emitted, pc, last_engine_info, last_llm_info>>

\* lines 98-104: returns whether the name was registered
unregister_engine(name) ==
    /\ pc = "idle"
    /\ ConfigBudget
    /\ engines' = Without(engines, name)
    /\ reg_ops' = IF name \in Registered(engines) THEN reg_ops + 1 ELSE reg_ops
    /\ ui_exc' = NoneVal
    /\ ret' = Returned(IF name \in Registered(engines) THEN <<"True">> ELSE <<"False">>)
    /\ call' = [NoCall EXCEPT !.op = "unregister_engine", !.args = [name |-> name]]
    /\ UNCHANGED <<threads, service, hotkey, settings, emitted, pc, last_engine_info, last_llm_info>>

\* update_engine_priority: ValueError for a name that is not registered
update_engine_priority(name, priority) ==
    /\ pc = "idle"
    /\ LET c == [NoCall EXCEPT !.op = "update_engine_priority", !.args = [name |-> name, priority |-> priority]]
       IN  IF name \notin Registered(engines)
           THEN /\ ui_exc' = "ValueError"
                /\ ret' = Raised("ValueError")
                /\ call' = [c EXCEPT !.raised = "update_engine_priority"]
                /\ UNCHANGED <<engines, reg_ops>>
           ELSE /\ ConfigBudget
                /\ engines' = dict_set(engines, name, get_entry(engines, name).factory, priority)
                /\ reg_ops' = reg_ops + 1
                /\ ui_exc' = NoneVal
                /\ ret' = Returned(<<>>)
                /\ call' = c
    /\ UNCHANGED <<threads, service, hotkey, settings, emitted, pc, last_engine_info, last_llm_info>>

\* Factory.is_available(settings); google_ok is whether the SpeechRecognition
\* package can build a recognizer
factory_is_available(factory, s, google_ok) ==
    CASE factory = "OpenAIWhisperFactory" -> truthy(get_openai_key(s)) /\ truthy(strip(get_openai_key(s)))
      [] factory = "GoogleSpeechFactory" -> google_ok
      [] OTHER -> TRUE

\* fault variant: the factory is not asked whether it is available
create_engine_by_name_unchecked(reg, name, s, google_ok) ==
    IF name \notin Registered(reg) THEN "ValueError"
    ELSE "engine"

\* create_engine_by_name: "ValueError", "RuntimeError" or "engine"
create_engine_by_name(reg, name, s, google_ok) ==
    IF name \notin Registered(reg) THEN "ValueError"
    ELSE IF ~factory_is_available(get_entry(reg, name).factory, s, google_ok) THEN "RuntimeError"
    ELSE "engine"
(***************************************************************************)
(* SpeechEngineRouter                                                      *)
(***************************************************************************)
EngineInfoInit == [name |-> "None", provider |-> "None", success |-> FALSE, error |-> NoneVal]

\* the registry name each creator lambda asks for
creator_engine(engine_name) ==
    CASE engine_name = "OpenAI Whisper" -> "openai"
      [] engine_name = "Google Speech" -> "google"
      [] engine_name = "Mock Speech" -> "mock"

get_engine_provider(engine_name) ==
    CASE engine_name = "OpenAI Whisper" -> "OpenAI"
      [] engine_name = "Google Speech" -> "Google"
      [] engine_name = "Mock Speech" -> "Mock"
      [] OTHER -> "Unknown"

get_engines_in_priority_order(s) ==
    (IF truthy(get_openai_key(s)) /\ truthy(strip(get_openai_key(s)))
     THEN <<"OpenAI Whisper">> ELSE <<>>)
        \o <<"Google Speech">> \o <<"Mock Speech">>

\* fault variant: the indicators are compared without lower-casing the result
is_error_result_case_sensitive(result) ==
    IF ~truthy(result) THEN TRUE
    ELSE \E i \in 1..Len(error_indicators) : contains(error_indicators[i], result)

is_error_result(result) ==
    IF ~truthy(result) THEN TRUE
    ELSE \E i \in 1..Len(error_indicators) : contains(error_indicators[i], lower(result))

\* line 62: result and result.strip() and not self._is_error_result(result)
speech_result_valid(result) ==
    truthy(result) /\ truthy(strip(result)) /\ ~is_error_result(result)

EngineOutcomes ==
    {[kind |-> k, val |-> <<>>] : k \in {"ctor_raise", "raise"}}
        \cup {[kind |-> "result", val |-> r] : r \in SpeechResults}

\* fault variant: the candidate list is built before the empty-audio check
empty_audio_after_listing(audio_data) ==
    /\ last_engine_info' = [name |-> "None", provider |-> "None", success |-> FALSE, error |-> "No audio data provided"]
    /\ ret' = Returned(NO_AUDIO)
    /\ call' = [NoCall EXCEPT !.op = "transcribe", !.input = audio_data, !.provider_at_call = settings.selected_provider, !.writes = 1,
                              !.settings_reads = 1, !.cands = get_engines_in_priority_order(settings)]
    /\ pc' = "idle"

\* lines 29-36: empty audio
empty_audio(audio_data) ==
    /\ last_engine_info' = [name |-> "None", provider |-> "None", success |-> FALSE, error |-> "No audio data provided"]
    /\ ret' = Returned(NO_AUDIO)
    /\ call' = [NoCall EXCEPT !.op = "transcribe", !.input = audio_data, !.provider_at_call = settings.selected_provider, !.writes = 1]
    /\ pc' = "idle"

\* lines 27-48: the empty-audio check and the candidate list
transcribe_with_fallback(audio_data) ==
    /\ pc = "idle"
    /\ IF ~truthy(audio_data)
       THEN empty_audio(audio_data)
       ELSE LET engines_to_try == get_engines_in_priority_order(settings)
                c == [NoCall EXCEPT !.op = "transcribe", !.input = audio_data, !.provider_at_call = settings.selected_provider, !.settings_reads = 1,
                                    !.cands = engines_to_try]
            IN  IF engines_to_try = <<>>
                THEN /\ last_engine_info' = [name |-> "None", provider |-> "None", success |-> FALSE, error |-> "No speech engines available"]
                     /\ ret' = Returned(NO_ENGINES)
                     /\ call' = [c EXCEPT !.writes = 1]
                     /\ pc' = "idle"
                ELSE /\ call' = [c EXCEPT !.idx = 1]
                     /\ ret' = Pending
                     /\ pc' = "speech_loop"
                     /\ UNCHANGED last_engine_info
    /\ UNCHANGED <<threads, service, hotkey, settings, emitted, ui_exc, engines, reg_ops, last_llm_info>>

\* fault variant: total failure raises instead of returning the sentinel
speech_continue_raise(c) ==
    IF c.idx < Len(c.cands)
    THEN /\ call' = [c EXCEPT !.idx = @ + 1]
         /\ UNCHANGED <<pc, ret, last_engine_info>>
    ELSE /\ last_engine_info' = [name |-> "All engines", provider |-> "Multiple", success |-> FALSE, error |-> "All speech engines failed"]
         /\ ret' = Raised("RuntimeError")
         /\ call' = [c EXCEPT !.writes = @ + 1]
         /\ pc' = "idle"

\* lines 51, 81-89: the next candidate, or the all-engines-failed epilogue
speech_continue(c) ==
    IF c.idx < Len(c.cands)
    THEN /\ call' = [c EXCEPT !.idx = @ + 1]
         /\ UNCHANGED <<pc, ret, last_engine_info>>
    ELSE /\ last_engine_info' = [name |-> "All engines", provider |-> "Multiple", success |-> FALSE, error |-> "All speech engines failed"]
         /\ ret' = Returned(ALL_FAILED)
         /\ call' = [c EXCEPT !.writes = @ + 1]
         /\ pc' = "idle"

\* fault variant: the candidate's exception leaves the loop
speech_except_propagate(c, exc) ==
    /\ ret' = Raised(exc)
    /\ call' = [c EXCEPT !.kinds = Append(@, "raised")]
    /\ pc' = "idle"
    /\ UNCHANGED last_engine_info

\* lines 77-79: except Exception: continue
speech_except(c, exc) == speech_continue([c EXCEPT !.kinds = Append(@, "raised")])

\* fault variant: the accepted engine is not recorded
speech_accept_no_record(c, engine_name, result) ==
    /\ ret' = Returned(strip(result))
    /\ call' = [c EXCEPT !.kinds = Append(@, "accepted")]
    /\ pc' = "idle"
    /\ UNCHANGED last_engine_info

\* fault variant: the loop goes on after an accepted result
speech_accept_continue(c, engine_name, result) ==
    /\ last_engine_info' = [name |-> engine_name, provider |-> get_engine_provider(engine_name), success |-> TRUE, error |-> NoneVal]
    /\ ret' = Returned(strip(result))
    /\ call' = [c EXCEPT !.kinds = Append(@, "accepted"), !.writes = @ + 1,
                         !.idx = IF @ < Len(c.cands) THEN @ + 1 ELSE @]
    /\ pc' = IF c.idx < Len(c.cands) THEN pc ELSE "idle"

\* lines 62-75: accepted result: record the engine and return
speech_accept(c, engine_name, result) ==
    /\ last_engine_info' = [name |-> engine_name, provider |-> get_engine_provider(engine_name), success |-> TRUE, error |-> NoneVal]
    /\ ret' = Returned(strip(result))
    /\ call' = [c EXCEPT !.kinds = Append(@, "accepted"), !.writes = @ + 1]
    /\ pc' = "idle"

\* lines 51-79: one iteration of the loop; google_ok and outcome are what
\* the environment (installed packages, network, provider) makes of it
speech_try_engine ==
    /\ pc = "speech_loop"
    /\ LET engine_name == call.cands[call.idx]
           c1 == [call EXCEPT !.tried = Append(@, engine_name), !.registry_calls = @ + 1]
           c2 == [c1 EXCEPT !.invoked = Append(@, engine_name)]
       IN  \E google_ok \in (IF engine_name = "Google Speech" THEN BOOLEAN ELSE {TRUE}) :
             LET created == create_engine_by_name(engines, creator_engine(engine_name), settings, google_ok)
             IN  IF created # "engine" THEN speech_except(c1, created)
                 ELSE \E outcome \in EngineOutcomes :
                        IF outcome.kind = "ctor_raise" THEN speech_except(c1, "Exception")
                        ELSE IF outcome.kind = "raise" THEN speech_except(c2, "Exception")
                        ELSE IF speech_result_valid(outcome.val)
                             THEN speech_accept([c2 EXCEPT !.result = outcome.val], engine_name, outcome.val)
                        ELSE speech_continue([c2 EXCEPT !.result = outcome.val, !.kinds = Append(@, "rejected")])
    /\ UNCHANGED <<threads, service, hotkey, settings, emitted, ui_exc, engines, reg_ops, last_llm_info>>

(***************************************************************************)
(* LLM clients                                                             *)
(***************************************************************************)
UpperOf == [a |-> "A", b |-> "B", c |-> "C", d |-> "D", e |-> "E", f |-> "F", g |-> "G", h |-> "H", i |-> "I", j |-> "J", k |-> "K", l |-> "L", m |-> "M", n |-> "N", o |-> "O", p |-> "P", q |-> "Q", r |-> "R", s |-> "S", t |-> "T", u |-> "U", v |-> "V", w |-> "W", x |-> "X", y |-> "Y", z |-> "Z"]

upper_char(c) == IF c \in DOMAIN UpperOf THEN UpperOf[c] ELSE c

\* str.capitalize(): first character upper-cased, the rest lower-cased
capitalize(s) == [i \in 1..Len(s) |-> IF i = 1 THEN upper_char(s[i]) ELSE lower_char(s[i])]

\* str.replace(old, ""): remove the non-overlapping occurrences, left to right
RECURSIVE remove_all(_, _)
remove_all(s, old) ==
    IF Len(s) < Len(old) \/ old = <<>> THEN s
    ELSE IF SubSeq(s, 1, Len(old)) = old THEN remove_all(SubSeq(s, Len(old) + 1, Len(s)), old)
    ELSE <<Head(s)>> \o remove_all(Tail(s), old)

K_grammar == <<"g", "r", "a", "m", "m", "a", "r">>

K_style == <<"s", "t", "y", "l", "e">>

K_custom == <<"c", "u", "s", "t", "o", "m">>

L_prefix == <<"[", "L", "L", "M", "-", "1", "]", " ">>

\* MockLLMClient.generate on a fresh instance (call_count becomes 1)
mock_generate(system_prompt, user_input) ==
    IF contains(K_grammar, lower(system_prompt)) THEN capitalize(strip(user_input)) \o <<".">>
    ELSE IF contains(K_style, lower(system_prompt))
         THEN strip(remove_all(remove_all(user_input, <<"u", "m">>), <<"u", "h">>))
    ELSE IF contains(K_custom, lower(system_prompt)) THEN lower(user_input)
    ELSE L_prefix \o strip(user_input)

P_base == <<"F", "i", "x", " ", "i", "t">>

P_grammar == <<"F", "i", "x", " ", "G", "r", "a", "m", "m", "a", "r">>

P_style == <<"S", "t", "y", "l", "e">>

T_um == <<"u", "m">>

T_hi == <<" ", "H", "i", " ">>

L_out == <<"D", "o", "n", "e">>

L_padded == <<" ", "o", "k", " ">>

Texts == {<<>>, <<" ">>, T_um, T_hi}

LLMResults == {<<>>, <<" ">>, L_out, L_padded}

\* what a read of the Cerebras key gives: SettingsManager has no
\* get_cerebras_key (AttributeError); another ISettingsManager returns a key
KeyReads ==
    {[kind |-> "raise", val |-> <<>>]} \cup {[kind |-> "value", val |-> k] : k \in ApiKeys}

LLMOutcomes ==
    {[kind |-> "raise", val |-> <<>>], [kind |-> "info_raise", val |-> L_out]}
        \cup {[kind |-> "result", val |-> r] : r \in LLMResults}

(***************************************************************************)
(* LLMRouter                                                               *)
(***************************************************************************)
LLMInfoInit == [provider |-> "None", model |-> "None", success |-> FALSE, error |-> NoneVal]

get_model_info(llm_name) ==
    CASE llm_name = "Cerebras" -> [provider |-> "Cerebras", model |-> "llama-4-maverick-17b-128e-instruct"]
      [] llm_name = "OpenAI" -> [provider |-> "OpenAI", model |-> "gpt-4o-mini"]
      [] llm_name = "Groq" -> [provider |-> "Groq", model |-> "llama-3.3-70b-versatile"]
      [] OTHER -> [provider |-> "Mock", model |-> "mock-llm-v1"]

get_llms_in_priority_order(cerebras_key) ==
    (IF truthy(cerebras_key) /\ truthy(strip(cerebras_key)) THEN <<"Cerebras">> ELSE <<>>)
        \o <<"Mock LLM">>

\* line 65: result and result.strip()
llm_result_valid(result) == truthy(result) /\ truthy(strip(result))

\* fault variant: blank input is returned trimmed
llm_no_input_trimmed(c) ==
    /\ last_llm_info' = [provider |-> "None", model |-> "None", success |-> FALSE, error |-> "No input text provided"]
    /\ ret' = Returned(strip(c.input))
    /\ call' = [c EXCEPT !.writes = 1]
    /\ pc' = "idle"

\* lines 27-34: empty or whitespace-only input
llm_no_input(c) ==
    /\ last_llm_info' = [provider |-> "None", model |-> "None", success |-> FALSE, error |-> "No input text provided"]
    /\ ret' = Returned(c.input)
    /\ call' = [c EXCEPT !.writes = 1]
    /\ pc' = "idle"

\* lines 25-46: the blank-input check and the candidate list
process_with_best_llm(system_prompt, user_input, key_read) ==
    /\ pc = "idle"
    /\ LET c == [NoCall EXCEPT !.op = "process_with_best_llm", !.input = user_input, !.prompt = system_prompt]
       IN  IF ~truthy(user_input) \/ ~truthy(strip(user_input))
           THEN llm_no_input(c)
           ELSE IF key_read.kind = "raise"
           THEN /\ ret' = Raised("AttributeError")
                /\ call' = [c EXCEPT !.settings_reads = 1]
                /\ pc' = "idle"
                /\ UNCHANGED last_llm_info
           ELSE LET llms_to_try == get_llms_in_priority_order(key_read.val)
                IN  IF llms_to_try = <<>>
                    THEN /\ last_llm_info' = [provider |-> "None", model |-> "None", success |-> FALSE, error |-> "No LLM clients available"]
                         /\ ret' = Returned(user_input)
                         /\ call' = [c EXCEPT !.settings_reads = 1, !.writes = 1]
                         /\ pc' = "idle"
                    ELSE /\ call' = [c EXCEPT !.settings_reads = 1, !.cands = llms_to_try, !.idx = 1]
                         /\ ret' = Pending
                         /\ pc' = "llm_loop"
                         /\ UNCHANGED last_llm_info
    /\ UNCHANGED <<threads, service, hotkey, settings, emitted, ui_exc, engines, reg_ops, last_engine_info>>

\* fault variant: a failed candidate is tried a second time before the next one
llm_continue_retry(c) ==
    IF c.idx < Len(c.cands) /\ Cardinality({i \in 1..Len(c.tried) : c.tried[i] = c.cands[c.idx]}) < 2
    THEN /\ call' = c
         /\ UNCHANGED <<pc, ret, last_llm_info>>
    ELSE IF c.idx < Len(c.cands)
    THEN /\ call' = [c EXCEPT !.idx = @ + 1]
         /\ UNCHANGED <<pc, ret, last_llm_info>>
    ELSE /\ last_llm_info' = [provider |-> "All providers", model |-> "Multiple", success |-> FALSE, error |-> "All LLM clients failed"]
         /\ ret' = Returned(c.input)
         /\ call' = [c EXCEPT !.writes = @ + 1]
         /\ pc' = "idle"

\* lines 49, 85-93: the next candidate, or the all-clients-failed epilogue
llm_continue(c) ==
    IF c.idx < Len(c.cands)
    THEN /\ call' = [c EXCEPT !.idx = @ + 1]
         /\ UNCHANGED <<pc, ret, last_llm_info>>
    ELSE /\ last_llm_info' = [provider |-> "All providers", model |-> "Multiple", success |-> FALSE, error |-> "All LLM clients failed"]
         /\ ret' = Returned(c.input)
         /\ call' = [c EXCEPT !.writes = @ + 1]
         /\ pc' = "idle"

\* lines 81-83: except Exception: continue
llm_except(c, exc) == llm_continue([c EXCEPT !.kinds = Append(@, "raised")])

\* lines 65-77: accepted result: record the client and return
llm_accept(c, llm_name, result) ==
    /\ last_llm_info' = [provider |-> get_model_info(llm_name).provider, model |-> get_model_info(llm_name).model, success |-> TRUE, error |-> NoneVal]
    /\ ret' = Returned(strip(result))
    /\ call' = [c EXCEPT !.kinds = Append(@, "accepted"), !.writes = @ + 1]
    /\ pc' = "idle"

\* lines 49-83: one iteration of the loop; key_read and outcome are what the
\* settings source and the provider make of it
llm_try_client ==
    /\ pc = "llm_loop"
    /\ call.cands[call.idx] \in {"Cerebras", "Mock LLM"}
    /\ LET llm_name == call.cands[call.idx]
           c1 == [call EXCEPT !.tried = Append(@, llm_name)]
           c2 == [c1 EXCEPT !.invoked = Append(@, llm_name)]
       IN  IF llm_name = "Cerebras"
           THEN \E key_read \in KeyReads :
                  IF key_read.kind = "raise" THEN llm_except(c1, "AttributeError")
                  ELSE IF ~(truthy(key_read.val) /\ truthy(strip(key_read.val)))
                       THEN llm_continue([c1 EXCEPT !.kinds = Append(@, "unavailable")])
                  ELSE \E outcome \in LLMOutcomes :
                         IF outcome.kind = "raise" THEN llm_except(c2, "Exception")
                         ELSE IF llm_result_valid(outcome.val)
                              THEN IF outcome.kind = "info_raise"
                                   THEN llm_except([c2 EXCEPT !.result = outcome.val], "AttributeError")
                                   ELSE llm_accept([c2 EXCEPT !.result = outcome.val], llm_name, outcome.val)
                         ELSE llm_continue([c2 EXCEPT !.result = outcome.val, !.kinds = Append(@, "rejected")])
           ELSE LET result == mock_generate(call.prompt, call.input)
                IN  IF llm_result_valid(result)
                    THEN llm_accept([c2 EXCEPT !.result = result], llm_name, result)
                    ELSE llm_continue([c2 EXCEPT !.result = result, !.kinds = Append(@, "rejected")])
    /\ UNCHANGED <<threads, service, hotkey, settings, emitted, ui_exc, engines, reg_ops, last_engine_info>>

(***************************************************************************)
(* LLMTextProcessor, written against ILLMRouter, SimplePromptLoader and    *)
(* ISettingsManager; what each collaborator call does is an input          *)
(***************************************************************************)
custom_section_prefix ==
    <<"\n", "\n", "#", "#", " ", "A", "d", "d", "i", "t", "i", "o", "n", "a", "l", " ", "I", "n", "s", "t", "r", "u", "c", "t", "i", "o", "n", "s", "\n", "\n", "A", "l", "s", "o", " ", "a", "p", "p", "l", "y", " ", "t", "h", "e", " ", "f", "o", "l", "l", "o", "w", "i", "n", "g", " ", "c", "u", "s", "t", "o", "m", " ", "u", "s", "e", "r", " ", "p", "r", "e", "f", "e", "r", "e", "n", "c", "e", "s", " ", "/", " ", "i", "n", "s", "t", "r", "u", "c", "t", "i", "o", "n", "s", " ", "t", "o", " ", "t", "h", "e", " ", "t", "e", "x", "t", ":", " ">>

CustomInputs == {<<>>, <<" ">>, <<"b", "e", " ", "b", "r", "i", "e", "f">>}

set_custom_instructions(instructions) ==
    /\ ConfigBudget
    /\ settings' = [settings EXCEPT !.custom_instructions = instructions]
    /\ emitted' = Append(emitted, <<"custom_instructions", instructions>>)
    /\ ui_exc' = NoneVal
    /\ UNCHANGED <<threads, service, hotkey, engines, reg_ops, pc, call, ret, last_engine_info, last_llm_info>>

\* is_available(): True, False or an exception
AvailOutcomes == {"true", "false", "raise"}

\* get_transcription_prompt(): the prompt or an exception
PromptLoads == {[kind |-> "raise", val |-> <<>>], [kind |-> "return", val |-> P_base]}

\* process_with_best_llm(): a string (echo: the user input it was given) or an exception
RouterOutcomes ==
    {[kind |-> "raise", val |-> <<>>], [kind |-> "echo", val |-> <<>>]}
        \cup {[kind |-> "return", val |-> r] : r \in LLMResults}

\* fault variant: the custom section is appended whatever the instructions are
build_final_prompt_always_appends(base_prompt, custom_instructions) ==
    base_prompt \o (custom_section_prefix \o custom_instructions)

\* lines 44-53: the prompt passed to the router
build_final_prompt(base_prompt, custom_instructions) ==
    IF truthy(custom_instructions) /\ truthy(strip(custom_instructions))
    THEN base_prompt \o (custom_section_prefix \o custom_instructions)
    ELSE base_prompt

\* fault variant: the router's result is returned as it came
select_result_untrimmed(processed_text, original_text) ==
    IF truthy(processed_text) /\ truthy(strip(processed_text)) /\ processed_text # original_text
    THEN processed_text
    ELSE original_text

\* lines 70-82: the router's result or the original text
select_result(processed_text, original_text) ==
    IF truthy(processed_text) /\ truthy(strip(processed_text)) /\ processed_text # original_text
    THEN strip(processed_text)
    ELSE original_text

\* lines 22-23: the blank-input return
blank_input_result(text) == Returned(text)

\* lines 84-87: the outer except
on_processing_error(original_text) == Returned(original_text)

\* lines 20-87; settings_ok and info_ok: whether get_custom_instructions()
\* and get_last_used_llm_info() return rather than raise
process_text(text, avail, prompt_load, settings_ok, routed, info_ok) ==
    /\ pc = "idle"
    /\ LET c == [NoCall EXCEPT !.op = "process_text", !.input = text]
           original_text == strip(text)
           final_prompt == build_final_prompt(prompt_load.val, settings.custom_instructions)
           processed_text == IF routed.kind = "echo" THEN original_text ELSE routed.val
       IN  IF ~truthy(text) \/ ~truthy(strip(text))
           THEN /\ ret' = blank_input_result(text)
                /\ call' = c
           ELSE IF avail = "raise"
           THEN /\ ret' = Raised("Exception")
                /\ call' = [c EXCEPT !.invoked = <<"is_available">>, !.raised = "is_available"]
           ELSE IF avail = "false"
           THEN /\ ret' = Returned(original_text)
                /\ call' = [c EXCEPT !.invoked = <<"is_available">>]
           ELSE IF prompt_load.kind = "raise"
           THEN /\ ret' = Returned(original_text)
                /\ call' = [c EXCEPT !.invoked = <<"is_available", "get_transcription_prompt">>, !.raised = "get_transcription_prompt"]
           ELSE IF ~settings_ok
           THEN /\ ret' = on_processing_error(original_text)
                /\ call' = [c EXCEPT !.invoked = <<"is_available", "get_transcription_prompt", "get_custom_instructions">>,
                                     !.settings_reads = 1, !.raised = "get_custom_instructions"]
           ELSE IF routed.kind = "raise"
           THEN /\ ret' = on_processing_error(original_text)
                /\ call' = [c EXCEPT !.invoked = <<"is_available", "get_transcription_prompt", "get_custom_instructions", "process_with_best_llm">>,
                                     !.settings_reads = 1, !.prompt = final_prompt, !.raised = "process_with_best_llm"]
           ELSE IF ~info_ok
           THEN /\ ret' = on_processing_error(original_text)
                /\ call' = [c EXCEPT !.invoked = <<"is_available", "get_transcription_prompt", "get_custom_instructions", "process_with_best_llm", "get_last_used_llm_info">>,
                                     !.settings_reads = 1, !.prompt = final_prompt, !.result = processed_text,
                                     !.raised = "get_last_used_llm_info"]
           ELSE /\ ret' = Returned(select_result(processed_text, original_text))
                /\ call' = [c EXCEPT !.invoked = <<"is_available", "get_transcription_prompt", "get_custom_instructions", "process_with_best_llm", "get_last_used_llm_info">>,
                                     !.settings_reads = 1, !.prompt = final_prompt, !.result = processed_text]
    /\ UNCHANGED <<threads, service, hotkey, settings, emitted, ui_exc, engines, reg_ops, pc, last_engine_info, last_llm_info>>


(***************************************************************************)
(* Diagnostics accessors.  A Python dict is a reference: `shared` says     *)
(* whether the value handed to the caller is the router's own dict or a    *)
(* copy of it; `of` names the router it came from.                         *)
(***************************************************************************)
InfoValue(info, router, is_shared) ==
    [kind |-> "return", val |-> info, exc |-> NoneVal, of |-> router, shared |-> is_shared]

\* fault variant: the accessor returns the router's own dict
get_last_used_engine_info_by_reference ==
    /\ pc = "idle"
    /\ ret' = InfoValue(last_engine_info, "engine", TRUE)
    /\ UNCHANGED <<threads, service, hotkey, settings, emitted, ui_exc, engines, reg_ops, pc, call, last_engine_info, last_llm_info>>

\* lines 155-157: return self._last_engine_info.copy()
get_last_used_engine_info ==
    /\ pc = "idle"
    /\ ret' = InfoValue(last_engine_info, "engine", FALSE)
    /\ UNCHANGED <<threads, service, hotkey, settings, emitted, ui_exc, engines, reg_ops, pc, call, last_engine_info, last_llm_info>>

\* lines 111-113: return self._last_llm_info.copy()
get_last_used_llm_info ==
    /\ pc = "idle"
    /\ ret' = InfoValue(last_llm_info, "llm", FALSE)
    /\ UNCHANGED <<threads, service, hotkey, settings, emitted, ui_exc, engines, reg_ops, pc, call, last_engine_info, last_llm_info>>

InfoChanges ==
    {[field |-> "success", value |-> b] : b \in BOOLEAN}
        \cup {[field |-> f, value |-> "changed"] : f \in {"provider", "error"}}

\* the caller assigns to a key of the dict the accessor returned; the
\* assignment is seen through every reference to that dict
caller_sets_item(change) ==
    /\ pc = "idle"
    /\ "shared" \in DOMAIN ret
    /\ ret.val[change.field] # change.value
    /\ ret' = [ret EXCEPT !.val = [@ EXCEPT ![change.field] = change.value]]
    /\ IF ret.shared /\ ret.of = "engine"
       THEN last_engine_info' = ret'.val /\ UNCHANGED last_llm_info
       ELSE IF ret.shared /\ ret.of = "llm"
       THEN last_llm_info' = ret'.val /\ UNCHANGED last_engine_info
       ELSE UNCHANGED <<last_engine_info, last_llm_info>>
    /\ UNCHANGED <<threads, service, hotkey, settings, emitted, ui_exc, engines, reg_ops, pc, call>>

(***************************************************************************)
(* Cloud LLM clients with the structured-output contract                   *)
(***************************************************************************)
CloudClients == {"OpenAI", "Groq"}

\* the settings key each client reads
cloud_provider(client) == IF client = "OpenAI" THEN "openai" ELSE "groq"

\* what the provider answers: the request fails, the answer has no
\* choices, the message content is not JSON, the JSON object has no
\* "output", or it has one
CloudResponses ==
    {[kind |-> k, val |-> <<>>] : k \in {"request_error", "no_choices", "malformed", "no_output"}}
        \cup {[kind |-> "output", val |-> r] : r \in LLMResults}

\* is_available: bool(api_key and api_key.strip())
cloud_is_available(client, s) ==
    LET k == get_provider_api_key(s, cloud_provider(client))
    IN  ~k.is_none /\ truthy(k.val) /\ truthy(strip(k.val))

\* generate: raises, or returns the "output" field, or returns the user
\* input when the content is not JSON or has no "output"
cloud_generate(client, s, user_input, response) ==
    IF ~cloud_is_available(client, s) THEN [kind |-> "raise", val |-> <<>>]
    ELSE IF response.kind \in {"request_error", "no_choices"} THEN [kind |-> "raise", val |-> <<>>]
    ELSE IF response.kind \in {"malformed", "no_output"} THEN [kind |-> "result", val |-> user_input]
    ELSE [kind |-> "result", val |-> response.val]

\* the router's call with a cloud client ahead of the terminal candidate
process_with_cloud_llm(client, system_prompt, user_input) ==
    /\ pc = "idle"
    /\ LET c == [NoCall EXCEPT !.op = "process_with_best_llm", !.input = user_input, !.prompt = system_prompt]
       IN  IF ~truthy(user_input) \/ ~truthy(strip(user_input))
           THEN llm_no_input(c)
           ELSE /\ call' = [c EXCEPT !.settings_reads = 1, !.cands = <<client, "Mock LLM">>, !.idx = 1]
                /\ ret' = Pending
                /\ pc' = "llm_loop"
                /\ UNCHANGED last_llm_info
    /\ UNCHANGED <<threads, service, hotkey, settings, emitted, ui_exc, engines, reg_ops, last_engine_info>>

\* lines 49-83 of the router on a cloud client
llm_try_cloud_client ==
    /\ pc = "llm_loop"
    /\ call.cands[call.idx] \in CloudClients
    /\ LET llm_name == call.cands[call.idx]
           c1 == [call EXCEPT !.tried = Append(@, llm_name)]
       IN  IF ~cloud_is_available(llm_name, settings)
           THEN llm_continue([c1 EXCEPT !.kinds = Append(@, "unavailable")])
           ELSE \E response \in CloudResponses :
                  LET generated == cloud_generate(llm_name, settings, call.input, response)
                      c2 == [c1 EXCEPT !.invoked = Append(@, llm_name), !.response = response.kind]
                  IN  IF generated.kind = "raise" THEN llm_except(c2, "Exception")
                      ELSE IF llm_result_valid(generated.val)
                           THEN llm_accept([c2 EXCEPT !.result = generated.val], llm_name, generated.val)
                      ELSE llm_continue([c2 EXCEPT !.result = generated.val, !.kinds = Append(@, "rejected")])
    /\ UNCHANGED <<threads, service, hotkey, settings, emitted, ui_exc, engines, reg_ops, last_engine_info>>

(***************************************************************************)
(* SpeechEngineRegistry queries                                            *)
(***************************************************************************)
\* the "id" of get_engine_info() of each factory
factory_engine_id(factory) ==
    CASE factory = "OpenAIWhisperFactory" -> "openai"
      [] factory = "GoogleSpeechFactory" -> "google"
      [] factory = "MockSpeechFactory" -> "mock"
      [] OTHER -> "local_whisper"

\* fault variant: availability is taken from the settings the registry was wired with
engine_descriptors_cached(reg, s, google_ok) ==
    [i \in 1..Len(reg) |->
        [id |-> factory_engine_id(reg[i].factory),
         available |-> factory_is_available(reg[i].factory, SettingsInit, google_ok),
         priority |-> reg[i].priority]]

\* lines 72-78: one descriptor per item of _engines, in dict order
engine_descriptors(reg, s, google_ok) ==
    [i \in 1..Len(reg) |->
        [id |-> factory_engine_id(reg[i].factory),
         available |-> factory_is_available(reg[i].factory, s, google_ok),
         priority |-> reg[i].priority]]

\* fault variant: an element goes before the elements of equal priority
RECURSIVE insert_before_equal(_, _)
insert_before_equal(sorted, e) ==
    IF sorted = <<>> THEN <<e>>
    ELSE IF Head(sorted).priority > e.priority THEN <<Head(sorted)>> \o insert_before_equal(Tail(sorted), e)
    ELSE <<e>> \o sorted

\* an element goes after the elements of greater or equal priority
RECURSIVE insert_by_priority(_, _)
insert_by_priority(sorted, e) ==
    IF sorted = <<>> THEN <<e>>
    ELSE IF Head(sorted).priority >= e.priority THEN <<Head(sorted)>> \o insert_by_priority(Tail(sorted), e)
    ELSE <<e>> \o sorted

\* list.sort(key=priority, reverse=True): stable, descending
RECURSIVE sort_by_priority(_)
sort_by_priority(list) ==
    IF list = <<>> THEN <<>>
    ELSE insert_by_priority(sort_by_priority(SubSeq(list, 1, Len(list) - 1)), list[Len(list)])

\* whether the package check of GoogleSpeechFactory matters for this registry
GoogleChecks(reg) ==
    IF \E i \in 1..Len(reg) : reg[i].factory = "GoogleSpeechFactory" THEN BOOLEAN ELSE {TRUE}

\* lines 68-92
get_available_engines ==
    /\ pc = "idle"
    /\ \E google_ok \in GoogleChecks(engines) :
         /\ ret' = Returned(sort_by_priority(engine_descriptors(engines, settings, google_ok)))
         /\ call' = [NoCall EXCEPT !.op = "get_available_engines", !.settings_reads = 1,
                                   !.args = [google_ok |-> google_ok]]
    /\ UNCHANGED <<threads, service, hotkey, settings, emitted, ui_exc, engines, reg_ops, pc, last_engine_info, last_llm_info>>

\* lines 49-66 as a call: tried holds the factory consulted, invoked the
\* factory whose create_engine ran
registry_create_engine_by_name(name) ==
    /\ pc = "idle"
    /\ \E google_ok \in GoogleChecks(engines) :
         LET created == create_engine_by_name(engines, name, settings, google_ok)
             c == [NoCall EXCEPT !.op = "create_engine_by_name", !.args = [name |-> name, google_ok |-> google_ok]]
         IN  IF created = "ValueError"
             THEN /\ ret' = Raised("ValueError")
                  /\ call' = [c EXCEPT !.raised = "create_engine_by_name"]
             ELSE IF created = "RuntimeError"
             THEN /\ ret' = Raised("RuntimeError")
                  /\ call' = [c EXCEPT !.tried = <<get_entry(engines, name).factory>>, !.settings_reads = 1,
                                       !.raised = "create_engine_by_name"]
             ELSE /\ ret' = Returned(<<factory_engine_id(get_entry(engines, name).factory)>>)
                  /\ call' = [c EXCEPT !.tried = <<get_entry(engines, name).factory>>, !.settings_reads = 1,
                                       !.invoked = <<get_entry(engines, name).factory>>]
    /\ UNCHANGED <<threads, service, hotkey, settings, emitted, ui_exc, engines, reg_ops, pc, last_engine_info, last_llm_info>>

\* fault variant: a factory that raises ends the search
RECURSIVE first_built_no_skip(_, _, _, _)
first_built_no_skip(sorted_engines, s, google_ok, broken) ==
    IF sorted_engines = <<>> THEN [consulted |-> <<>>, created |-> <<>>, built |-> "none"]
    ELSE LET factory == Head(sorted_engines).factory
             rest == first_built_no_skip(Tail(sorted_engines), s, google_ok, broken)
         IN  IF factory_is_available(factory, s, google_ok)
             THEN IF factory \in broken
                  THEN [consulted |-> <<factory>>, created |-> <<factory>>, built |-> "none"]
                  ELSE [consulted |-> <<factory>>, created |-> <<factory>>, built |-> factory]
             ELSE [consulted |-> <<factory>> \o rest.consulted, created |-> rest.created, built |-> rest.built]

\* lines 36-44: the loop over the sorted items; consulted are the factories
\* asked is_available, created those whose create_engine ran, built the one
\* whose engine is returned
RECURSIVE first_built(_, _, _, _)
first_built(sorted_engines, s, google_ok, broken) ==
    IF sorted_engines = <<>> THEN [consulted |-> <<>>, created |-> <<>>, built |-> "none"]
    ELSE LET factory == Head(sorted_engines).factory
             rest == first_built(Tail(sorted_engines), s, google_ok, broken)
         IN  IF factory_is_available(factory, s, google_ok)
             THEN IF factory \in broken
                  THEN [consulted |-> <<factory>> \o rest.consulted,
                        created |-> <<factory>> \o rest.created, built |-> rest.built]
                  ELSE [consulted |-> <<factory>>, created |-> <<factory>>, built |-> factory]
             ELSE [consulted |-> <<factory>> \o rest.consulted, created |-> rest.created, built |-> rest.built]

\* lines 24-47: the first engine that can be built in priority order,
\* RuntimeError when nothing is registered or nothing could be built
create_best_engine ==
    /\ pc = "idle"
    /\ \E google_ok \in GoogleChecks(engines), broken \in SUBSET ({engines[i].factory : i \in 1..Len(engines)}
                                                                        \cap {"GoogleSpeechFactory", "LocalWhisperFactory"}) :
         LET search == first_built(sort_by_priority(engines), settings, google_ok, broken)
             c == [NoCall EXCEPT !.op = "create_best_engine",
                                 !.args = [google_ok |-> google_ok, broken |-> broken],
                                 !.tried = search.consulted, !.invoked = search.created,
                                 !.settings_reads = IF engines = <<>> THEN 0 ELSE 1]
         IN  IF search.built # "none"
             THEN /\ ret' = Returned(<<factory_engine_id(search.built)>>)
                  /\ call' = c
             ELSE /\ ret' = Raised("RuntimeError")
                  /\ call' = [c EXCEPT !.raised = "create_best_engine"]
    /\ UNCHANGED <<threads, service, hotkey, settings, emitted, ui_exc, engines, reg_ops, pc, last_engine_info, last_llm_info>>

(***************************************************************************)
(* Availability checks of the speech factories, the speech engines and the *)
(* LLM clients, called directly                                            *)
(***************************************************************************)
SpeechEngines == {"OpenAIWhisperEngine", "GroqWhisperEngine", "SpeechRecognitionEngine", "MockSpeechEngine"}

LLMClients == {"CerebrasLLMClient", "GroqLLMClient", "OpenAILLMClient", "PassthroughLLMClient"}

Components == (Factories \ {"LocalWhisperFactory"}) \cup SpeechEngines \cup LLMClients

bool(b) == IF b THEN <<"True">> ELSE <<"False">>

\* engine.is_available(): try/except around the key read and the client
\* construction; client_ok is whether the underlying client can be built
engine_is_available(engine, s, client_ok) ==
    CASE engine = "OpenAIWhisperEngine" ->
           truthy(get_openai_key(s)) /\ truthy(strip(get_openai_key(s))) /\ client_ok
      [] engine = "GroqWhisperEngine" -> cloud_is_available("Groq", s) /\ client_ok
      [] engine = "SpeechRecognitionEngine" -> client_ok
      [] OTHER -> TRUE

\* client.is_available(): no try; the Cerebras client reads get_cerebras_key()
client_is_available(client, s, key_read) ==
    CASE client = "CerebrasLLMClient" ->
           IF key_read.kind = "raise" THEN Raised("AttributeError")
           ELSE Returned(bool(truthy(key_read.val) /\ truthy(strip(key_read.val))))
      [] client = "GroqLLMClient" -> Returned(bool(cloud_is_available("Groq", s)))
      [] client = "OpenAILLMClient" -> Returned(bool(cloud_is_available("OpenAI", s)))
      [] OTHER -> Returned(bool(TRUE))

\* one availability check of one component
is_available(component) ==
    /\ pc = "idle"
    /\ \E client_ok \in (IF component \in {"GoogleSpeechFactory", "OpenAIWhisperEngine", "GroqWhisperEngine",
                                          "SpeechRecognitionEngine"}
                         THEN BOOLEAN ELSE {TRUE}),
          key_read \in (IF component = "CerebrasLLMClient" THEN KeyReads ELSE {[kind |-> "value", val |-> <<>>]}) :
         /\ ret' = IF component \in Factories
                   THEN Returned(bool(factory_is_available(component, settings, client_ok)))
                   ELSE IF component \in SpeechEngines
                   THEN Returned(bool(engine_is_available(component, settings, client_ok)))
                   ELSE client_is_available(component, settings, key_read)
         /\ call' = [NoCall EXCEPT !.op = "is_available",
                                   !.args = [component |-> component, client_ok |-> client_ok, key_read |-> key_read],
                                   !.settings_reads = IF component \in {"MockSpeechFactory", "MockSpeechEngine", "PassthroughLLMClient", "GoogleSpeechFactory", "SpeechRecognitionEngine"} THEN 0 ELSE 1]
    /\ UNCHANGED <<threads, service, hotkey, settings, emitted, ui_exc, engines, reg_ops, pc, last_engine_info, last_llm_info>>

\* fault variant: nothing is listed when the key cannot be read
available_llms_no_fallback(key_read, client_ok) ==
    IF key_read.kind = "raise" THEN <<>>
    ELSE (IF truthy(key_read.val) /\ truthy(strip(key_read.val)) /\ client_ok THEN <<"Cerebras">> ELSE <<>>)
             \o <<"Mock LLM">>

\* LLMRouter.get_available_llms, lines 115-139: a failing key read gives
\* ["Mock LLM"]; client_ok is whether the Cerebras client can be built and
\* says it is available
available_llms(key_read, client_ok) ==
    IF key_read.kind = "raise" THEN <<"Mock LLM">>
    ELSE (IF truthy(key_read.val) /\ truthy(strip(key_read.val)) /\ client_ok THEN <<"Cerebras">> ELSE <<>>)
             \o <<"Mock LLM">>

\* the Cerebras client is built only for a non-blank key
CerebrasBuilds(key_read) ==
    IF key_read.kind = "value" /\ truthy(key_read.val) /\ truthy(strip(key_read.val)) THEN BOOLEAN ELSE {TRUE}

get_available_llms ==
    /\ pc = "idle"
    /\ \E key_read \in KeyReads : \E client_ok \in CerebrasBuilds(key_read) :
         /\ ret' = Returned(available_llms(key_read, client_ok))
         /\ call' = [NoCall EXCEPT !.op = "get_available_llms", !.settings_reads = 1,
                                   !.args = [client_ok |-> client_ok, key_read |-> key_read]]
    /\ UNCHANGED <<threads, service, hotkey, settings, emitted, ui_exc, engines, reg_ops, pc, last_engine_info, last_llm_info>>

\* LLMRouter.is_available, lines 141-147
llm_router_is_available ==
    /\ pc = "idle"
    /\ \E key_read \in KeyReads : \E client_ok \in CerebrasBuilds(key_read) :
         /\ ret' = Returned(bool(Len(available_llms(key_read, client_ok)) > 0))
         /\ call' = [NoCall EXCEPT !.op = "llm_router_is_available", !.settings_reads = 1,
                                   !.args = [client_ok |-> client_ok, key_read |-> key_read]]
    /\ UNCHANGED <<threads, service, hotkey, settings, emitted, ui_exc, engines, reg_ops, pc, last_engine_info, last_llm_info>>

(***************************************************************************)
(* VoiceRecordingService.process_recording: the captured buffer, the       *)
(* engines' answers, the text processor, the data store and the inserter   *)
(* are inputs; the call record also holds the transcripts saved, the texts *)
(* handed to the inserter and the insertion status marked                  *)
(***************************************************************************)
NO_AUDIO_RECORDED == <<"N", "o", " ", "a", "u", "d", "i", "o", " ", "r", "e", "c", "o", "r", "d", "e", "d">>

RECOGNITION_FAILED == <<"S", "p", "e", "e", "c", "h", " ", "r", "e", "c", "o", "g", "n", "i", "t", "i", "o", "n", " ", "f", "a", "i", "l", "e", "d">>


\* what audio_recorder.stop_recording() hands over: None, no bytes, the
\* mock recorder's buffer, a buffer with speech
RecordedAudio ==
    {[is_none |-> TRUE, bytes |-> <<>>]}
        \cup {[is_none |-> FALSE, bytes |-> b] : b \in {<<>>, <<0, 0, 0, 0>>, <<16, 39, 240, 216>>}}

RecordingOutcomes ==
    {[kind |-> "raise", val |-> <<>>]}
        \cup {[kind |-> "result", val |-> r] : r \in {<<>>, S_hello, S_err, <<"e", "r", "r", "o", "r", ":", " ", "x">>}}

\* text_processor.process_text(): raises, returns its input, or returns a text
TextProcessorOutcomes ==
    {[kind |-> "raise", val |-> <<>>], [kind |-> "echo", val |-> <<>>]}
        \cup {[kind |-> "return", val |-> r] : r \in {<<>>, L_out}}

\* line 271: result and result.strip() and not result.startswith("error")
recording_accepts(result) ==
    truthy(result) /\ truthy(strip(result)) /\ ~(Len(result) >= 5 /\ SubSeq(result, 1, 5) = <<"e", "r", "r", "o", "r">>)

\* lines 249-262: OpenAI first when a key is set, then Google; the injected
\* engine when there is no container
recording_engines_to_try(s, di) ==
    IF di
    THEN (IF truthy(get_openai_key(s)) /\ truthy(strip(get_openai_key(s))) THEN <<"OpenAI Whisper">> ELSE <<>>)
             \o <<"Google Speech">>
    ELSE <<"Default Engine">>

\* lines 264-284: the first accepted result, else "Speech recognition failed"
RECURSIVE attempt_engines(_, _, _)
attempt_engines(engines_to_try, outcomes, i) ==
    IF i > Len(engines_to_try)
    THEN [text |-> RECOGNITION_FAILED, invoked |-> engines_to_try]
    ELSE IF outcomes[i].kind = "result" /\ recording_accepts(outcomes[i].val)
    THEN [text |-> outcomes[i].val, invoked |-> SubSeq(engines_to_try, 1, i)]
    ELSE attempt_engines(engines_to_try, outcomes, i + 1)

\* the answers the i-th engine of the list can give; one placeholder when
\* the list has no i-th engine or transcription is not attempted
AnswersNeeded(audio_data, di, i) ==
    IF ~audio_data.is_none /\ audio_data.bytes # <<>> /\ i <= Len(recording_engines_to_try(settings, di))
    THEN RecordingOutcomes ELSE {[kind |-> "raise", val |-> <<>>]}


\* fault variant: the text is inserted before the transcript is saved, and
\* a raising inserter loses the transcript
pipeline_steps_insert_first(processed_kind, save_ok, blank, insert) ==
    IF processed_kind = "raise" THEN <<>>
    ELSE IF blank THEN (IF save_ok THEN <<"save_transcript", "transcript_created", "mark_insertion_status">> ELSE <<>>)
    ELSE IF insert = "raise" THEN <<"insert_text">>
    ELSE IF ~save_ok THEN <<"insert_text">>
    ELSE <<"insert_text", "save_transcript", "transcript_created", "mark_insertion_status">>

\* lines 126-149 and 176-205: the data store, UI and inserter calls made
\* after process_text, in order; none when process_text or save_transcript raises
pipeline_steps(processed_kind, save_ok, blank, insert) ==
    IF processed_kind = "raise" \/ ~save_ok THEN <<>>
    ELSE <<"save_transcript", "transcript_created">>
             \o (IF blank THEN <<>> ELSE <<"insert_text">>)
             \o <<"mark_insertion_status">>

\* lines 113-157 with insert_text (lines 176-205); every exception is
\* caught and printed, so the call returns None.  saved, inserted and marked
\* are the transcripts saved, the texts handed to the inserter and the
\* insertion status recorded
process_recording_run(audio_data, di) ==
    \E o1 \in AnswersNeeded(audio_data, di, 1), o2 \in AnswersNeeded(audio_data, di, 2),
       processed \in TextProcessorOutcomes, save_ok \in BOOLEAN :
       \E insert \in IF processed.kind # "raise" /\ save_ok THEN {"inserted", "failed", "raise"} ELSE {"inserted"} :
         LET has_audio == ~audio_data.is_none /\ audio_data.bytes # <<>>
             engines_to_try == recording_engines_to_try(settings, di)
             attempt == attempt_engines(engines_to_try, <<o1, o2>>, 1)
             original_text == IF has_audio THEN attempt.text ELSE NO_AUDIO_RECORDED
             processed_text == IF processed.kind = "echo" THEN original_text ELSE processed.val
             blank == ~truthy(strip(processed_text))
             steps == pipeline_steps(processed.kind, save_ok, blank, insert)
             did(step) == \E i \in 1..Len(steps) : steps[i] = step
             c == [NoCall EXCEPT !.op = "process_recording",
                                 !.args = [audio_data |-> audio_data, di |-> di],
                                 !.cands = IF has_audio THEN engines_to_try ELSE <<>>,
                                 !.invoked = IF has_audio THEN attempt.invoked ELSE <<>>,
                                 !.result = original_text,
                                 !.settings_reads = IF has_audio /\ di THEN 1 ELSE 0,
                                 !.raised = IF processed.kind = "raise" THEN "process_text"
                                            ELSE IF ~save_ok THEN "save_transcript" ELSE "none"]
         IN  /\ call' = c @@ [steps |-> steps,
                              saved |-> IF did("save_transcript")
                                        THEN <<[original_text |-> original_text, processed_text |-> processed_text]>>
                                        ELSE <<>>,
                              inserted |-> IF did("insert_text") THEN <<processed_text>> ELSE <<>>,
                              insert |-> IF did("insert_text") THEN insert ELSE "skipped",
                              marked |-> IF ~did("mark_insertion_status") THEN <<>>
                                         ELSE IF blank THEN <<TRUE>> ELSE <<insert = "inserted">>]
             /\ ret' = Returned(<<>>)

process_recording(audio_data, di) ==
    /\ pc = "idle"
    /\ process_recording_run(audio_data, di)
    /\ UNCHANGED <<threads, service, hotkey, settings, emitted, ui_exc, engines, reg_ops, pc, last_engine_info, last_llm_info>>

(***************************************************************************)
(* VoiceRecordingService.start_recording / stop_recording, driven by the   *)
(* callbacks of MockHotkeyHandler or of FnKeyHandler                       *)
(***************************************************************************)
\* callbacks: on_press/on_release callbacks received, last: the latest one; recorder_calls: the
\* calls made on the audio recorder; overlay: recording_started emitted and
\* not yet recording_stopped; processed: runs of process_recording
ServiceInit ==
    [is_recording |-> FALSE, callbacks |-> 0, last |-> "none", recorder_calls |-> <<>>, overlay |-> FALSE,
     processed |-> 0]

\* fault variant: no check of is_recording
start_recording_unguarded(sv) ==
    [sv EXCEPT !.is_recording = TRUE, !.recorder_calls = Append(@, "start"), !.overlay = TRUE,
               !.callbacks = @ + 1, !.last = "press"]

\* lines 72-88
start_recording(sv) ==
    IF sv.is_recording THEN [sv EXCEPT !.callbacks = @ + 1, !.last = "press"]
    ELSE [sv EXCEPT !.is_recording = TRUE, !.recorder_calls = Append(@, "start"), !.overlay = TRUE,
                    !.callbacks = @ + 1, !.last = "press"]

\* lines 90-111; process_recording runs inside the call
stop_recording ==
    IF ~service.is_recording
    THEN /\ service' = [service EXCEPT !.callbacks = @ + 1, !.last = "release"]
         /\ UNCHANGED <<call, ret>>
    ELSE /\ service' = [service EXCEPT !.is_recording = FALSE, !.recorder_calls = Append(@, "stop"),
                                       !.overlay = FALSE, !.processed = @ + 1, !.callbacks = @ + 1,
                                       !.last = "release"]
         /\ \E audio_data \in RecordedAudio, di \in BOOLEAN : process_recording_run(audio_data, di)

\* MockHotkeyHandler.simulate_press, lines 122-125
simulate_press ==
    /\ pc = "idle"
    /\ service.callbacks < MaxCallbacks
    /\ service' = start_recording(service)
    /\ UNCHANGED <<threads, hotkey, call, ret, settings, emitted, ui_exc, engines, reg_ops, pc, last_engine_info, last_llm_info>>

\* MockHotkeyHandler.simulate_release, lines 127-130
simulate_release ==
    /\ pc = "idle"
    /\ service.callbacks < MaxCallbacks
    /\ stop_recording
    /\ UNCHANGED <<threads, hotkey, settings, emitted, ui_exc, engines, reg_ops, pc, last_engine_info, last_llm_info>>

(***************************************************************************)
(* FnKeyHandler: Cmd+Shift+Space                                           *)
(***************************************************************************)
Keys == {"cmd", "shift", "space", "other"}

\* events: key events handled; presses, releases: callbacks fired
HotkeyInit ==
    [cmd_pressed |-> FALSE, shift_pressed |-> FALSE, space_pressed |-> FALSE, hotkey_pressed |-> FALSE,
     events |-> 0, presses |-> 0, releases |-> 0]

\* lines 52-57 and 75-80: the flag of the key is set or cleared
track_key(hk, key, down) ==
    CASE key = "cmd" -> [hk EXCEPT !.cmd_pressed = down]
      [] key = "shift" -> [hk EXCEPT !.shift_pressed = down]
      [] key = "space" -> [hk EXCEPT !.space_pressed = down]
      [] OTHER -> hk

all_pressed(hk) == hk.cmd_pressed /\ hk.shift_pressed /\ hk.space_pressed

\* fault variant: the press callback fires whenever all three keys are down
press_fires_while_held(hk, key) == all_pressed(track_key(hk, key, TRUE))

\* lines 60-61
press_fires(hk, key) == all_pressed(track_key(hk, key, TRUE)) /\ ~hk.hotkey_pressed


\* _on_key_press, lines 49-69; the press callback is start_recording
on_key_press(key) ==
    /\ pc = "idle"
    /\ hotkey.events < MaxKeyEvents
    /\ IF press_fires(hotkey, key)
       THEN /\ hotkey' = [track_key(hotkey, key, TRUE) EXCEPT !.hotkey_pressed = TRUE, !.events = @ + 1,
                                                              !.presses = @ + 1]
            /\ service' = start_recording(service)
       ELSE /\ hotkey' = [track_key(hotkey, key, TRUE) EXCEPT !.events = @ + 1]
            /\ UNCHANGED service
    /\ UNCHANGED <<threads, call, ret, settings, emitted, ui_exc, engines, reg_ops, pc, last_engine_info, last_llm_info>>

\* _on_key_release, lines 71-94; the release callback is stop_recording
on_key_release(key) ==
    /\ pc = "idle"
    /\ hotkey.events < MaxKeyEvents
    /\ IF hotkey.hotkey_pressed /\ ~all_pressed(track_key(hotkey, key, FALSE))
       THEN /\ hotkey' = [track_key(hotkey, key, FALSE) EXCEPT !.hotkey_pressed = FALSE, !.events = @ + 1,
                                                               !.releases = @ + 1]
            /\ stop_recording
       ELSE /\ hotkey' = [track_key(hotkey, key, FALSE) EXCEPT !.events = @ + 1]
            /\ UNCHANGED <<service, call, ret>>
    /\ UNCHANGED <<threads, settings, emitted, ui_exc, engines, reg_ops, pc, last_engine_info, last_llm_info>>

(***************************************************************************)
(* SpeechEngineRouter.get_available_engines and is_available               *)
(***************************************************************************)
\* the "name" of get_engine_info() of each factory; the local factory is
\* named by its registration
factory_engine_name(factory) ==
    CASE factory = "OpenAIWhisperFactory" -> "OpenAI Whisper"
      [] factory = "GoogleSpeechFactory" -> "Google Speech Recognition"
      [] factory = "MockSpeechFactory" -> "Mock Speech Engine"
      [] OTHER -> "Local Whisper"

\* lines 162-165: the name of every descriptor the registry returns
router_engine_names(reg, s, google_ok) ==
    LET listed == sort_by_priority(
                      [i \in 1..Len(reg) |->
                          [name |-> factory_engine_name(reg[i].factory),
                           available |-> factory_is_available(reg[i].factory, s, google_ok),
                           priority |-> reg[i].priority]])
    IN  [i \in 1..Len(listed) |-> listed[i].name]

\* lines 159-168
router_get_available_engines ==
    /\ pc = "idle"
    /\ \E google_ok \in GoogleChecks(engines) :
         /\ ret' = Returned(router_engine_names(engines, settings, google_ok))
         /\ call' = [NoCall EXCEPT !.op = "router_get_available_engines", !.registry_calls = 1,
                                   !.args = [google_ok |-> google_ok]]
    /\ UNCHANGED <<threads, service, hotkey, settings, emitted, ui_exc, engines, reg_ops, pc, last_engine_info, last_llm_info>>

\* lines 170-176
router_is_available ==
    /\ pc = "idle"
    /\ \E google_ok \in GoogleChecks(engines) :
         /\ ret' = Returned(bool(Len(router_engine_names(engines, settings, google_ok)) > 0))
         /\ call' = [NoCall EXCEPT !.op = "router_is_available", !.registry_calls = 1,
                                   !.args = [google_ok |-> google_ok]]
    /\ UNCHANGED <<threads, service, hotkey, settings, emitted, ui_exc, engines, reg_ops, pc, last_engine_info, last_llm_info>>

(***************************************************************************)
(* Two threads calling the routers of one instance at the same time.  A    *)
(* thread's pc: "idle", "loop" (in the candidate loop), "written" (the     *)
(* diagnostics record is assigned, the return has not happened), "done".   *)
(* wrote holds the record the call assigned, returned the order in which   *)
(* the calls ended.                                                        *)
(***************************************************************************)
ThreadIds == {1, 2}

ThreadsInit ==
    [calls |-> [t \in ThreadIds |-> [pc |-> "idle", op |-> "none", input |-> <<>>, cands |-> <<>>, idx |-> 0,
                                     wrote |-> <<>>, outcome |-> "none"]],
     returned |-> <<>>]

\* the thread assigns a new dict to the router's attribute
thread_writes(t, record) ==
    [threads EXCEPT !.calls[t].pc = "written", !.calls[t].wrote = <<record>>]

\* speech_engine_router.py lines 27-48 in thread t
thread_transcribe(t, audio_data) ==
    /\ threads.calls[t].pc = "idle"
    /\ IF ~truthy(audio_data)
       THEN LET record == [name |-> "None", provider |-> "None", success |-> FALSE, error |-> "No audio data provided"]
            IN  /\ last_engine_info' = record
                /\ threads' = [thread_writes(t, record) EXCEPT !.calls[t].op = "speech"]
       ELSE /\ threads' = [threads EXCEPT !.calls[t].pc = "loop", !.calls[t].op = "speech",
                                          !.calls[t].cands = get_engines_in_priority_order(settings),
                                          !.calls[t].idx = 1]
            /\ UNCHANGED last_engine_info
    /\ UNCHANGED <<service, hotkey, settings, emitted, ui_exc, engines, reg_ops, pc, call, ret, last_llm_info>>

\* lines 51-89 in thread t: one iteration, or the last one with the epilogue
thread_try_engine(t) ==
    /\ threads.calls[t].pc = "loop"
    /\ threads.calls[t].op = "speech"
    /\ LET me == threads.calls[t]
           engine_name == me.cands[me.idx]
       IN  \E google_ok \in (IF engine_name = "Google Speech" THEN BOOLEAN ELSE {TRUE}), outcome \in {[kind |-> "raise", val |-> <<>>], [kind |-> "result", val |-> S_hello],
                         [kind |-> "result", val |-> S_cnu]} :
             LET created == create_engine_by_name(engines, creator_engine(engine_name), settings, google_ok)
                 accepted == created = "engine" /\ outcome.kind = "result" /\ speech_result_valid(outcome.val)
                 success == [name |-> engine_name, provider |-> get_engine_provider(engine_name), success |-> TRUE, error |-> NoneVal]
                 failure == [name |-> "All engines", provider |-> "Multiple", success |-> FALSE, error |-> "All speech engines failed"]
             IN  IF accepted
                 THEN /\ last_engine_info' = success
                      /\ threads' = thread_writes(t, success)
                 ELSE IF me.idx < Len(me.cands)
                 THEN /\ threads' = [threads EXCEPT !.calls[t].idx = @ + 1]
                      /\ UNCHANGED last_engine_info
                 ELSE /\ last_engine_info' = failure
                      /\ threads' = thread_writes(t, failure)
    /\ UNCHANGED <<service, hotkey, settings, emitted, ui_exc, engines, reg_ops, pc, call, ret, last_llm_info>>

\* llm_router.py lines 25-46 in thread t; a raising key read ends the call
\* with the exception before anything is assigned
thread_process_llm(t, user_input, key_read) ==
    /\ threads.calls[t].pc = "idle"
    /\ IF ~truthy(user_input) \/ ~truthy(strip(user_input))
       THEN LET record == [provider |-> "None", model |-> "None", success |-> FALSE, error |-> "No input text provided"]
            IN  /\ last_llm_info' = record
                /\ threads' = [thread_writes(t, record) EXCEPT !.calls[t].op = "llm", !.calls[t].input = user_input]
       ELSE IF key_read.kind = "raise"
       THEN /\ threads' = [threads EXCEPT !.calls[t].pc = "done", !.calls[t].op = "llm",
                                          !.calls[t].input = user_input, !.calls[t].outcome = "raise",
                                          !.returned = Append(@, t)]
            /\ UNCHANGED last_llm_info
       ELSE /\ threads' = [threads EXCEPT !.calls[t].pc = "loop", !.calls[t].op = "llm",
                                          !.calls[t].input = user_input,
                                          !.calls[t].cands = get_llms_in_priority_order(key_read.val),
                                          !.calls[t].idx = 1]
            /\ UNCHANGED last_llm_info
    /\ UNCHANGED <<service, hotkey, settings, emitted, ui_exc, engines, reg_ops, pc, call, ret, last_engine_info>>

\* lines 49-93 in thread t
thread_try_client(t) ==
    /\ threads.calls[t].pc = "loop"
    /\ threads.calls[t].op = "llm"
    /\ LET me == threads.calls[t]
           llm_name == me.cands[me.idx]
       IN  \E key_read \in (IF llm_name = "Cerebras" THEN KeyReads ELSE {[kind |-> "value", val |-> <<>>]}),
              outcome \in (IF llm_name = "Cerebras"
                           THEN {[kind |-> "raise", val |-> <<>>], [kind |-> "result", val |-> L_out],
                                 [kind |-> "result", val |-> <<>>]}
                           ELSE {[kind |-> "result", val |-> mock_generate(P_base, me.input)]}) :
             LET available == llm_name # "Cerebras"
                                  \/ (key_read.kind = "value" /\ truthy(key_read.val) /\ truthy(strip(key_read.val)))
                 accepted == available /\ outcome.kind = "result" /\ llm_result_valid(outcome.val)
                 success == [provider |-> get_model_info(llm_name).provider, model |-> get_model_info(llm_name).model,
                             success |-> TRUE, error |-> NoneVal]
                 failure == [provider |-> "All providers", model |-> "Multiple", success |-> FALSE, error |-> "All LLM clients failed"]
             IN  IF accepted
                 THEN /\ last_llm_info' = success
                      /\ threads' = thread_writes(t, success)
                 ELSE IF me.idx < Len(me.cands)
                 THEN /\ threads' = [threads EXCEPT !.calls[t].idx = @ + 1]
                      /\ UNCHANGED last_llm_info
                 ELSE /\ last_llm_info' = failure
                      /\ threads' = thread_writes(t, failure)
    /\ UNCHANGED <<service, hotkey, settings, emitted, ui_exc, engines, reg_ops, pc, call, ret, last_engine_info>>

\* the return statement after the assignment
thread_return(t) ==
    /\ threads.calls[t].pc = "written"
    /\ threads' = [threads EXCEPT !.calls[t].pc = "done", !.calls[t].outcome = "return", !.returned = Append(@, t)]
    /\ UNCHANGED <<service, hotkey, settings, emitted, ui_exc, engines, reg_ops, pc, call, ret, last_engine_info, last_llm_info>>
(***************************************************************************)
(* Specification                                                           *)
(***************************************************************************)
Init ==
    /\ settings = SettingsInit
    /\ emitted = <<>>
    /\ ui_exc = NoneVal
    /\ engines = EnginesInit
    /\ reg_ops = 0
    /\ pc = "idle"
    /\ call = NoCall
    /\ ret = Pending
    /\ last_engine_info = EngineInfoInit
    /\ last_llm_info = LLMInfoInit
    /\ service = ServiceInit
    /\ hotkey = HotkeyInit
    /\ threads = ThreadsInit

Next ==
    \/ \E p \in ProviderInputs : set_selected_provider(p)
    \/ \E p \in {"openai", "local"}, k \in ApiKeys : set_provider_api_key(p, k)
    \/ \E n \in EngineNames, p \in Priorities : register_engine(n, factory_of(n), p)
    \/ \E n \in EngineNames : unregister_engine(n)
    \/ \E n \in EngineNames, p \in Priorities : update_engine_priority(n, p)
    \/ \E a \in AudioInputs : transcribe_with_fallback(a)
    \/ speech_try_engine
    \/ \E p \in {P_base, P_style}, t \in Texts, k \in KeyReads : process_with_best_llm(p, t, k)
    \/ llm_try_client

Spec == Init /\ [][Next]_vars

NextText ==
    \/ \E i \in CustomInputs : set_custom_instructions(i)
    \/ \E t \in Texts, a \in AvailOutcomes, p \in PromptLoads, s \in BOOLEAN, r \in RouterOutcomes, i \in BOOLEAN :
          process_text(t, a, p, s, r, i)

SpecText == Init /\ [][NextText]_vars


NextInfo ==
    \/ \E n \in {"google", "mock"} : register_engine(n, factory_of(n), 100)
    \/ \E a \in AudioInputs : transcribe_with_fallback(a)
    \/ speech_try_engine
    \/ \E t \in {<<>>, T_um}, k \in KeyReads : process_with_best_llm(P_base, t, k)
    \/ llm_try_client
    \/ get_last_used_engine_info
    \/ get_last_used_llm_info
    \/ \E change \in InfoChanges : caller_sets_item(change)

SpecInfo == Init /\ [][NextInfo]_vars

NextCloud ==
    \/ \E p \in {"openai", "groq"}, k \in ApiKeys : set_provider_api_key(p, k)
    \/ \E client \in CloudClients, p \in {P_base, P_style}, t \in Texts : process_with_cloud_llm(client, p, t)
    \/ llm_try_cloud_client
    \/ llm_try_client

SpecCloud == Init /\ [][NextCloud]_vars

NextRegistry ==
    \/ \E k \in ApiKeys : set_provider_api_key("openai", k)
    \/ \E n \in EngineNames, p \in Priorities :
          \E f \in {factory_of(n), "MockSpeechFactory", "NotAFactory"} : register_engine(n, f, p)
    \/ \E n \in EngineNames : unregister_engine(n)
    \/ \E n \in EngineNames, p \in Priorities : update_engine_priority(n, p)
    \/ get_available_engines
    \/ \E n \in EngineNames : registry_create_engine_by_name(n)
    \/ create_best_engine
    \/ \E c \in Components : is_available(c)
    \/ get_available_llms
    \/ llm_router_is_available

SpecRegistry == Init /\ [][NextRegistry]_vars

NextRecording ==
    \/ \E k \in ApiKeys : set_provider_api_key("openai", k)
    \/ \E a \in RecordedAudio, di \in BOOLEAN : process_recording(a, di)

SpecRecording == Init /\ [][NextRecording]_vars

NextAvailability ==
    \/ \E k \in ApiKeys : set_provider_api_key("openai", k)
    \/ \E n \in EngineNames, p \in Priorities : register_engine(n, factory_of(n), p)
    \/ \E n \in EngineNames : unregister_engine(n)
    \/ router_get_available_engines
    \/ router_is_available

SpecAvailability == Init /\ [][NextAvailability]_vars

NextService ==
    \/ simulate_press
    \/ simulate_release

SpecService == Init /\ [][NextService]_vars

NextHotkey ==
    \/ \E key \in Keys : on_key_press(key)
    \/ \E key \in Keys : on_key_release(key)

SpecHotkey == Init /\ [][NextHotkey]_vars

NextThreads ==
    \/ \E k \in ApiKeys : set_provider_api_key("openai", k)
    \/ \E t \in ThreadIds, a \in AudioInputs : thread_transcribe(t, a)
    \/ \E t \in ThreadIds : thread_try_engine(t)
    \/ \E t \in ThreadIds, u \in {<<>>, T_um}, k \in KeyReads : thread_process_llm(t, u, k)
    \/ \E t \in ThreadIds : thread_try_client(t)
    \/ \E t \in ThreadIds : thread_return(t)

SpecThreads == Init /\ [][NextThreads]_vars

\* a started loop iteration runs to its end: every backend invocation
\* returns or raises, and the loop is straight-line code around it
SpecCalls == Init /\ [][NextInfo]_vars /\ WF_vars(speech_try_engine) /\ WF_vars(llm_try_client)
(***************************************************************************)
(* Properties                                                              *)
(***************************************************************************)

\* C1: process_text never raises, and whenever a call beneath it raised
\* (is_available, the prompt loader, the settings source, the router) it
\* returns the original input with surrounding whitespace trimmed.
C1_NeverRaises ==
    call.op = "process_text" =>
        /\ ret.kind = "return"
        /\ call.raised # "none" => ret.val = strip(call.input)

\* C2: for an input whose trimmed form is non-empty, process_text returns a
\* non-empty string that is the trimmed input or the trimmed rewrite,
\* whatever the router, the prompt loader and the settings do.
C2_NonEmptyResult ==
    (call.op = "process_text" /\ strip(call.input) # <<>>) =>
        /\ ret.kind = "return"
        /\ ret.val # <<>>
        /\ ret.val \in {strip(call.input), strip(call.result)}

C3_LoopStep == pc \in {"speech_loop", "llm_loop"} /\ call' # call

C3_CandidateRaised ==
    /\ Len(call'.kinds) = Len(call.kinds) + 1
    /\ call'.kinds[Len(call'.kinds)] = "raised"

\* C3: in the fallback loop of either router no step ends the call with an
\* exception, and after a candidate raised the loop is at the next candidate
\* (or, after the last one, the call has returned).
C3_ExceptionsStayInLoop ==
    [][C3_LoopStep =>
         /\ ret'.kind # "raise"
         /\ C3_CandidateRaised =>
              IF call.idx < Len(call.cands)
              THEN pc' = pc /\ call'.idx = call.idx + 1 /\ call'.cands = call.cands
              ELSE pc' = "idle" /\ ret'.kind = "return"]_vars

C3_Witness ==
    /\ call.op = "transcribe"
    /\ Len(call.tried) >= 2
    /\ call.kinds[1] = "raised"
    /\ call.invoked # <<>>
    /\ ret.kind = "return"

C4_Signatures ==
    { <<"e", "r", "r", "o", "r", ":">>,
      <<"f", "a", "i", "l", "e", "d">>,
      <<"r", "e", "c", "o", "g", "n", "i", "t", "i", "o", "n", " ", "e", "r", "r", "o", "r">>,
      <<"s", "e", "r", "v", "i", "c", "e", " ", "e", "r", "r", "o", "r">>,
      <<"c", "o", "u", "l", "d", " ", "n", "o", "t", " ", "u", "n", "d", "e", "r", "s", "t", "a", "n", "d">>,
      <<"s", "p", "e", "e", "c", "h", " ", "n", "o", "t", " ", "c", "l", "e", "a", "r">> }

C4_HasSignature(r) ==
    \E sig \in C4_Signatures : \E i \in 1..Len(r) :
        /\ i + Len(sig) - 1 <= Len(r)
        /\ \A j \in 1..Len(sig) : lower_char(r[i + j - 1]) = sig[j]

C4_NonBlank(r) == \E i \in 1..Len(r) : r[i] \notin Whitespace

\* the last tried speech candidate returned a result (call.result)
C4_Returned ==
    /\ call.op = "transcribe"
    /\ call.kinds # <<>>
    /\ call.kinds[Len(call.kinds)] \in {"accepted", "rejected"}

C4_Accepted == call.kinds[Len(call.kinds)] = "accepted"

\* C4 as stated: a result is accepted iff it is non-empty and contains no
\* error signature, compared case-insensitively.
C4_AcceptIffNonEmpty ==
    C4_Returned => (C4_Accepted <=> (call.result # <<>> /\ ~C4_HasSignature(call.result)))

\* C4 (amended): a result is accepted iff it is non-blank (non-empty after
\* trimming whitespace) and contains no error signature, compared
\* case-insensitively.
C4_AcceptIffNonBlank ==
    C4_Returned => (C4_Accepted <=> (C4_NonBlank(call.result) /\ ~C4_HasSignature(call.result)))

C4_Witness ==
    /\ C4_Returned
    /\ ~C4_Accepted
    /\ call.result = S_cnu

\* a candidate returned a rejected result and the next one an acceptable one
C5_Case ==
    /\ call.op = "transcribe"
    /\ Len(call.kinds) >= 2
    /\ Len(call.tried) = Len(call.kinds)
    /\ call.kinds[Len(call.kinds) - 1] = "rejected"
    /\ call.kinds[Len(call.kinds)] # "raised"
    /\ C4_NonBlank(call.result)
    /\ ~C4_HasSignature(call.result)

\* C5: when candidate A returned a rejected result and the next candidate B
\* an acceptable one, the call has returned B's (trimmed) result and the
\* diagnostics name B with success = true, not A.
C5_FallbackServes ==
    C5_Case =>
        /\ pc = "idle"
        /\ ret = Returned(strip(call.result))
        /\ last_engine_info.name = call.tried[Len(call.tried)]
        /\ last_engine_info.name # call.tried[Len(call.tried) - 1]
        /\ last_engine_info.success = TRUE
        /\ last_engine_info.error = NoneVal

C5_Witness ==
    /\ C5_Case
    /\ call.result = S_padded
    /\ call.tried = <<"OpenAI Whisper", "Google Speech">>

C6_Provider(name) == IF name = "Cerebras" THEN "Cerebras" ELSE "Mock"

\* C6: an accepted candidate is the last one constructed and invoked in its
\* call: the call has returned and the diagnostics name that candidate.
C6_ReturnsAtOnce ==
    \A i \in 1..Len(call.kinds) :
        call.kinds[i] = "accepted" =>
            /\ i = Len(call.kinds)
            /\ Len(call.tried) = i
            /\ call.invoked[Len(call.invoked)] = call.tried[i]
            /\ pc = "idle"
            /\ ret.kind = "return"
            /\ IF call.op = "transcribe"
               THEN last_engine_info.name = call.tried[i] /\ last_engine_info.success
               ELSE last_llm_info.provider = C6_Provider(call.tried[i]) /\ last_llm_info.success

C6_Witness ==
    /\ call.op = "transcribe"
    /\ call.kinds # <<>>
    /\ call.kinds[Len(call.kinds)] = "accepted"
    /\ Len(call.tried) < Len(call.cands)

\* every candidate of a speech call raised or returned a rejected result
C7_AllFailed ==
    /\ call.op = "transcribe"
    /\ call.cands # <<>>
    /\ Len(call.kinds) = Len(call.cands)
    /\ \A i \in 1..Len(call.kinds) : call.kinds[i] \in {"raised", "rejected"}

\* C7: when every speech candidate raised or was rejected, the call has
\* returned the all-engines-failed sentinel and the diagnostics hold
\* success = false and error = "All speech engines failed".
C7_SentinelOnTotalFailure ==
    C7_AllFailed =>
        /\ pc = "idle"
        /\ ret = Returned(ALL_FAILED)
        /\ last_engine_info.success = FALSE
        /\ last_engine_info.error = "All speech engines failed"

C7_Witness ==
    /\ C7_AllFailed
    /\ \E i \in 1..Len(call.kinds) : call.kinds[i] = "raised"
    /\ \E i \in 1..Len(call.kinds) : call.kinds[i] = "rejected"

\* C8: a speech call with empty audio has returned the no-audio result
\* without reading the settings, calling the registry, or constructing or
\* invoking a backend.
C8_EmptyAudioShortCircuits ==
    (call.op = "transcribe" /\ call.input = <<>>) =>
        /\ pc = "idle"
        /\ ret = Returned(NO_AUDIO)
        /\ call.settings_reads = 0
        /\ call.registry_calls = 0
        /\ call.cands = <<>>
        /\ call.tried = <<>>
        /\ call.invoked = <<>>

C8_Witness ==
    /\ call.op = "transcribe"
    /\ call.input = <<>>
    /\ ret.kind = "return"
    /\ settings.provider_api_keys["openai"] = <<"s", "k">>

\* the backend the spec maps each provider to
C9_ProviderEngine(provider) ==
    CASE provider = "openai" -> "openai"
      [] provider = "groq" -> "groq"
      [] OTHER -> "local_whisper"

\* C9: every backend a transcription invokes is the one mapped from the
\* configured provider.
C9_OnlyConfiguredProvider ==
    [][(pc = "speech_loop" /\ Len(call'.invoked) > Len(call.invoked)) =>
         creator_engine(call'.invoked[Len(call'.invoked)]) = C9_ProviderEngine(settings.selected_provider)]_vars

\* C10: an unknown backend id ends the call with the configuration error
\* before any backend is invoked, and a rejected set_selected_provider
\* leaves the settings unchanged and emits no signal.
C10_ConfigErrorsReachCaller ==
    [][/\ (pc = "speech_loop" /\ call' # call /\ creator_engine(call.cands[call.idx]) \notin Registered(engines)) =>
            (ret' = Raised("ValueError") /\ call'.invoked = call.invoked)
       /\ (ui_exc' = "ValueError" /\ ui_exc # "ValueError") =>
            (settings' = settings /\ emitted' = emitted)]_vars

(***************************************************************************)
(* Registry order, diagnostics and the LLM router                          *)
(***************************************************************************)
\* registry names of the candidates tried so far in a speech call
C11_TriedNames(c) == {creator_engine(c.tried[i]) : i \in 1..Len(c.tried)}

\* a registered, available backend of strictly higher priority than `name`
\* that the call has not tried yet
C11_HigherUntried(c, name) ==
    /\ name \in Registered(engines)
    /\ \E other \in Registered(engines) \ C11_TriedNames(c) :
         /\ other # name
         /\ get_engine_priority(engines, other) > get_engine_priority(engines, name)
         /\ factory_is_available(get_entry(engines, other).factory, settings, FALSE)

\* C11: whenever the speech router tries a registered backend, every
\* registered available backend of strictly higher priority was tried before it.
C11_DescendingPriority ==
    [][(pc = "speech_loop" /\ Len(call'.tried) = Len(call.tried) + 1) =>
         ~C11_HigherUntried(call, creator_engine(call.cands[call.idx]))]_vars

\* a speech call ends while the registry is the one wired at start-up
\* (openai 100, local_whisper 10) and no OpenAI key is set
C12_Scenario ==
    /\ engines = EnginesInit
    /\ ~truthy(strip(get_openai_key(settings)))
    /\ call.op = "transcribe"
    /\ truthy(call.input)
    /\ pc = "speech_loop"
    /\ pc' = "idle"

\* C12: with openai (100) unavailable and local_whisper (10) available, a
\* call on non-empty audio skips openai, is served by local_whisper, and the
\* diagnostics name local_whisper with success.
C12_LocalWhisperServes ==
    [][C12_Scenario =>
         /\ ret'.kind = "return"
         /\ \A i \in 1..Len(call'.invoked) : call'.invoked[i] # "OpenAI Whisper"
         /\ last_engine_info'.name = "local_whisper"
         /\ last_engine_info'.success]_vars

\* a router call that has ended, either way
C13_CallEnded ==
    /\ call.op \in {"transcribe", "process_with_best_llm"}
    /\ pc = "idle"

\* C13: every ended call of either router has written the router's
\* diagnostics record exactly once, however it ended.
C13_OneDiagnosticsWrite == C13_CallEnded => call.writes = 1

\* the ended call was served by a candidate
C14_Accepted ==
    /\ call.kinds # <<>>
    /\ call.kinds[Len(call.kinds)] = "accepted"

\* what the accessor of the router of the last call returns
C14_Info == IF call.op = "transcribe" THEN last_engine_info ELSE last_llm_info

C15_CallerChanged ==
    /\ "shared" \in DOMAIN ret
    /\ "shared" \in DOMAIN ret'
    /\ ret'.of = ret.of
    /\ ret'.val # ret.val
    /\ call' = call
    /\ ret'.val # (IF ret.of = "engine" THEN last_engine_info ELSE last_llm_info)

\* an accessor returned
C15_AccessorReturned ==
    /\ "shared" \in DOMAIN ret'
    /\ ret' # ret
    /\ ~C15_CallerChanged

\* C15: a change the caller makes in the value an accessor returned leaves
\* both routers' diagnostics as they were, and an accessor call returns the
\* router's diagnostics, so the accessor returns the same before and after.
C15_ReturnsCopy ==
    [][/\ C15_CallerChanged =>
            (last_engine_info' = last_engine_info /\ last_llm_info' = last_llm_info)
       /\ C15_AccessorReturned =>
            ret'.val = (IF ret'.of = "engine" THEN last_engine_info ELSE last_llm_info)]_vars

\* the caller holds a changed value of a successful speech call's diagnostics
C15_Witness ==
    /\ "shared" \in DOMAIN ret
    /\ ret.of = "engine"
    /\ last_engine_info.success
    /\ ret.val # last_engine_info
    /\ ret.val.name = last_engine_info.name

\* a speech call on non-empty audio begins and builds its candidate list
C16_CallBegins ==
    /\ pc = "idle"
    /\ pc' = "speech_loop"
    /\ call'.op = "transcribe"

\* the call before it on this router also built a candidate list, under
\* another selected provider
C16_ProviderChanged ==
    /\ call.op = "transcribe"
    /\ call.settings_reads = 1
    /\ call.provider_at_call # call'.provider_at_call

C16_IsCandidate(c, engine_name) == \E i \in 1..Len(c.cands) : c.cands[i] = engine_name

\* C16: the candidate list of every call follows the settings as they are
\* when the call begins: OpenAI is a candidate exactly if a key is set now,
\* and after a change of the selected provider the list is not the one of
\* the call before.
C16_SettingsReadPerCall ==
    [][C16_CallBegins =>
         /\ C16_IsCandidate(call', "OpenAI Whisper") <=> truthy(strip(get_openai_key(settings)))
         /\ C16_ProviderChanged => call'.cands # call.cands]_vars

\* an ended call of the LLM router
C17_CallEnded ==
    /\ call.op = "process_with_best_llm"
    /\ pc = "idle"

C17_NonBlank(text) == truthy(text) /\ truthy(strip(text))

\* the candidates that were available and whose generate() returned a
\* non-blank string, in the order they were tried
C17_Served(c) ==
    \E i \in 1..Len(c.kinds) :
        /\ c.kinds[i] = "accepted"
        /\ \A j \in 1..(i - 1) : c.kinds[j] \in {"unavailable", "rejected", "raised"}

\* C17: a call of the LLM router on non-blank input returns; it returns
\* the trimmed output of the first candidate that was available and
\* generated a non-blank string, and with no such candidate it returns the
\* input as given with success=false in the diagnostics.
C17_FirstOutputOrInput ==
    (C17_CallEnded /\ C17_NonBlank(call.input)) =>
        /\ ret.kind = "return"
        /\ IF C17_Served(call)
           THEN ret.val = strip(call.result) /\ C17_NonBlank(call.result)
           ELSE ret.val = call.input /\ ~last_llm_info.success

\* an ended call of the LLM router on empty or whitespace-only input
C18_BlankCall ==
    /\ call.op = "process_with_best_llm"
    /\ pc = "idle"
    /\ ~(truthy(call.input) /\ truthy(strip(call.input)))

\* C18: the LLM router returns empty or whitespace-only input unchanged,
\* tries and invokes no client, and records provider "None", success=false
\* and error "No input text provided".
C18_BlankInputShortCircuits ==
    C18_BlankCall =>
        /\ ret = Returned(call.input)
        /\ call.tried = <<>>
        /\ call.invoked = <<>>
        /\ call.settings_reads = 0
        /\ last_llm_info.provider = "None"
        /\ ~last_llm_info.success
        /\ last_llm_info.error = "No input text provided"

\* a whitespace-only input came back untrimmed
C18_Witness ==
    /\ C18_BlankCall
    /\ truthy(call.input)
    /\ ret.val = call.input
    /\ call.writes = 1

\* an ended call on non-blank text whose candidate list is the last
\* candidate alone: the settings hold no cloud LLM credential
C20_NoCredentialCall ==
    /\ call.op = "process_with_best_llm"
    /\ pc = "idle"
    /\ C17_NonBlank(call.input)
    /\ call.cands = <<"Mock LLM">>

\* C20: with no cloud LLM credential configured the call on non-blank text
\* returns that text, trimmed, with nothing added or altered.
C20_PassthroughLast == C20_NoCredentialCall => ret = Returned(strip(call.input))

\* the cloud client of the call got a content that is not JSON, or JSON
\* without "output"
C19_BadResponse == call.response \in {"malformed", "no_output"}

\* C19: a cloud client that received malformed JSON or no "output" field
\* is not accepted by the router, and the diagnostics of that call do not
\* report it as the successful provider.
C19_BadResponseRejected ==
    (call.op = "process_with_best_llm" /\ C19_BadResponse) =>
        \A i \in 1..Len(call.kinds) :
            call.tried[i] \in CloudClients =>
                /\ call.kinds[i] # "accepted"
                /\ pc = "idle" =>
                     ~(last_llm_info.success /\ last_llm_info.provider = call.tried[i])

(***************************************************************************)
(* Text processor, registry queries, availability and the recording        *)
(* pipeline                                                                *)
(***************************************************************************)
\* a call of process_text whose trimmed input is empty
C21_BlankText ==
    /\ call.op = "process_text"
    /\ strip(call.input) = <<>>

\* C21: process_text on empty or whitespace-only input returns the empty
\* string and calls neither is_available nor process_with_best_llm.
C21_BlankReturnsEmpty ==
    C21_BlankText =>
        /\ ret = Returned(<<>>)
        /\ call.invoked = <<>>

\* a call of process_text in which the router's rewrite call and the
\* read of its diagnostics both returned
C22_RouterReturned ==
    /\ call.op = "process_text"
    /\ Len(call.invoked) = 5
    /\ call.raised = "none"

C23_PromptPassed ==
    /\ call'.op = "process_text"
    /\ emitted' = emitted
    /\ Len(call'.invoked) >= 4
    /\ call'.invoked[4] = "process_with_best_llm"

C23_NonBlank(text) == truthy(text) /\ truthy(strip(text))

\* C23: with non-blank custom instructions in the settings the prompt
\* passed to the router begins with the whole base prompt and contains the
\* custom instructions verbatim; with empty or blank custom instructions it
\* is exactly the base prompt.
C23_PromptHoldsInstructions ==
    [][C23_PromptPassed =>
         IF C23_NonBlank(settings.custom_instructions)
         THEN /\ SubSeq(call'.prompt, 1, Len(P_base)) = P_base
              /\ contains(settings.custom_instructions, SubSeq(call'.prompt, Len(P_base) + 1, Len(call'.prompt)))
         ELSE call'.prompt = P_base]_vars

\* a prompt longer than the base prompt was passed
C23_Witness ==
    /\ call.op = "process_text"
    /\ Len(call.invoked) >= 4
    /\ C23_NonBlank(settings.custom_instructions)
    /\ Len(call.prompt) > Len(P_base) + Len(settings.custom_instructions)
    /\ contains(settings.custom_instructions, call.prompt)

\* get_available_engines has just returned its list
C24_Listed ==
    /\ call'.op = "get_available_engines"
    /\ emitted' = emitted

\* the entries of a list that have priority p, in the order of the list
C24_OfPriority(list, p) ==
    LET HasPriority(e) == e.priority = p
    IN  SelectSeq(list, HasPriority)

\* C24: the list has one entry per registered engine, with the availability
\* the engine has at the call, in descending priority, and the entries of
\* one priority are in the order in which the registry holds them (the
\* order of registration).
C24_RankedStable ==
    [][C24_Listed =>
         LET result == ret'.val
             live == engine_descriptors(engines, settings, call'.args.google_ok)
         IN  /\ ret'.kind = "return"
             /\ Len(result) = Len(engines)
             /\ \A i \in 1..(Len(result) - 1) : result[i].priority >= result[i + 1].priority
             /\ \A p \in Priorities : C24_OfPriority(result, p) = C24_OfPriority(live, p)]_vars

\* a list in which sorting moved an entry and two different engines tie
C24_Witness ==
    /\ call.op = "get_available_engines"
    /\ ret.val # engine_descriptors(engines, settings, call.args.google_ok)
    /\ \E i, j \in 1..Len(ret.val) :
         i < j /\ ret.val[i].priority = ret.val[j].priority /\ ret.val[i].id # ret.val[j].id

\* register_engine has just been called with a speech engine factory
C25_Registering ==
    /\ call'.op = "register_engine"
    /\ emitted' = emitted
    /\ call'.args.factory \in Factories

\* C25: a registration, under a new id or under one that is already
\* registered, raises nothing; afterwards every id has exactly one entry,
\* the registered id carries the factory and priority just given, and the
\* entries of the other ids are as they were.
C25_LastWriteWins ==
    [][C25_Registering =>
         /\ ret'.kind = "return"
         /\ ui_exc' = NoneVal
         /\ \A i, j \in 1..Len(engines') : engines'[i].name = engines'[j].name => i = j
         /\ \E i \in 1..Len(engines') :
              engines'[i] = [name |-> call'.args.name, factory |-> call'.args.factory,
                             priority |-> call'.args.priority]
         /\ Without(engines', call'.args.name) = Without(engines, call'.args.name)]_vars

\* "openai", registered at start-up with the Whisper factory at priority
\* 100, has been registered again with another factory and priority
C25_Witness ==
    /\ call.op = "register_engine"
    /\ ret.kind = "return"
    /\ reg_ops = 1
    /\ call.args.name = "openai"
    /\ call.args.factory = "MockSpeechFactory"
    /\ call.args.priority = 10
    /\ Len(engines) = 2
    /\ engines[1] = [name |-> "openai", factory |-> "MockSpeechFactory", priority |-> 10]

\* create_engine_by_name has just been called
C26_Called ==
    /\ call'.op = "create_engine_by_name"
    /\ emitted' = emitted

C27_Queried ==
    /\ call'.op \in {"get_available_engines", "create_engine_by_name", "create_best_engine"}
    /\ emitted' = emitted

\* the factories registered under an engine id
C27_FactoriesOf(id) ==
    {engines[i].factory : i \in {j \in 1..Len(engines) : factory_engine_id(engines[j].factory) = id}}

\* C27: what a registry query reports is the availability of the factories
\* under the settings as they are at that call: every `available` flag of
\* get_available_engines is the live availability of the engine's factory,
\* create_engine_by_name returns an engine exactly when the named factory
\* is available now, and create_best_engine returns an engine exactly when
\* some registered factory is available now and can build its engine.
C27_LiveAvailability ==
    [][C27_Queried =>
         LET live(factory) == factory_is_available(factory, settings, call'.args.google_ok)
         IN  /\ call'.op = "get_available_engines" =>
                  \A i \in 1..Len(ret'.val) :
                     \A f \in C27_FactoriesOf(ret'.val[i].id) : ret'.val[i].available = live(f)
             /\ (call'.op = "create_engine_by_name" /\ call'.tried # <<>>) =>
                  (ret'.kind = "return") = live(call'.tried[1])
             /\ call'.op = "create_best_engine" =>
                  (ret'.kind = "return") =
                      (\E i \in 1..Len(engines) :
                          live(engines[i].factory) /\ engines[i].factory \notin call'.args.broken)]_vars

\* a listing that reports the Whisper engine available after the key was
\* set, the key having been blank at start-up
C27_Witness ==
    /\ call.op = "get_available_engines"
    /\ emitted # <<>>
    /\ \E i \in 1..Len(ret.val) : ret.val[i].id = "openai" /\ ret.val[i].available

\* C28: an availability check of a speech factory, a speech engine or an
\* LLM client returns a boolean and never raises.
C28_NeverRaises ==
    call.op = "is_available" => (ret.kind = "return" /\ ret.val \in {<<"True">>, <<"False">>})

\* a catalog has just been asked what is available
C29_Asked ==
    /\ call'.op \in {"get_available_engines", "create_best_engine", "get_available_llms", "llm_router_is_available"}
    /\ emitted' = emitted

\* the always-available speech factory is in the registry
C29_MockRegistered == \E i \in 1..Len(engines) : engines[i].factory = "MockSpeechFactory"

\* C29: whatever the API keys are, a speech registry that holds the mock
\* factory lists at least one available engine and can build a best engine,
\* and the LLM router lists at least one LLM and reports itself available.
C29_NeverAllUnavailable ==
    [][C29_Asked =>
         /\ (call'.op = "get_available_engines" /\ C29_MockRegistered) =>
              \E i \in 1..Len(ret'.val) : ret'.val[i].available
         /\ (call'.op = "create_best_engine" /\ C29_MockRegistered) => ret'.kind = "return"
         /\ call'.op = "get_available_llms" => (ret'.kind = "return" /\ Len(ret'.val) > 0)
         /\ call'.op = "llm_router_is_available" => ret' = Returned(<<"True">>)]_vars

\* a listing in which the mock engine is the only available one
C29_Witness ==
    /\ call.op = "get_available_engines"
    /\ Len(ret.val) >= 2
    /\ \E i \in 1..Len(ret.val) : ret.val[i].available
    /\ \A i \in 1..Len(ret.val) : ret.val[i].available => ret.val[i].id = "mock"

\* every 16-bit sample of a non-empty captured buffer is zero
C30_Silent(audio_data) ==
    /\ ~audio_data.is_none
    /\ audio_data.bytes # <<>>
    /\ \A i \in 1..Len(audio_data.bytes) : audio_data.bytes[i] = 0

\* C30: for a captured buffer that is silent the recording pipeline invokes
\* no speech engine, saves no transcript and hands no text to the inserter.
C30_SilenceGated ==
    (call.op = "process_recording" /\ C30_Silent(call.args.audio_data)) =>
        /\ call.invoked = <<>>
        /\ call.saved = <<>>
        /\ call.inserted = <<>>

\* the router has just been asked which engines are available
C31_Asked ==
    /\ call'.op \in {"router_get_available_engines", "router_is_available"}
    /\ emitted' = emitted

\* C31: the router's list names exactly the registered engines that are
\* available under the settings of the call, and the router reports itself
\* available exactly when some registered engine is.
C31_ListsAvailableOnly ==
    [][C31_Asked =>
         LET live(i) == factory_is_available(engines[i].factory, settings, call'.args.google_ok)
         IN  /\ call'.op = "router_get_available_engines" =>
                  \A i \in 1..Len(engines) :
                     (\E j \in 1..Len(ret'.val) : ret'.val[j] = factory_engine_name(engines[i].factory))
                         <=> live(i)
             /\ call'.op = "router_is_available" =>
                  (ret'.val = <<"True">>) <=> (\E i \in 1..Len(engines) : live(i))]_vars

\* create_best_engine has just been called
C32_Called ==
    /\ call'.op = "create_best_engine"
    /\ emitted' = emitted

\* C32: create_best_engine returns the engine of a registered factory that
\* is available and builds without raising, and no such factory has a
\* higher priority; the factories consulted before it are consulted in
\* descending priority and each is unavailable or raises; the call raises
\* RuntimeError exactly when no registered factory can build an engine.
C32_BestBuildable ==
    [][C32_Called =>
         LET buildable(factory) ==
                 /\ factory_is_available(factory, settings, call'.args.google_ok)
                 /\ factory \notin call'.args.broken
             consulted == call'.tried
             PriorityOf(factory) == {engines[i].priority : i \in {j \in 1..Len(engines) : engines[j].factory = factory}}
         IN  /\ (ret'.kind = "raise") = ~(\E i \in 1..Len(engines) : buildable(engines[i].factory))
             /\ ret'.kind = "raise" => ret'.exc = "RuntimeError"
             /\ ret'.kind = "return" =>
                  /\ \E i \in 1..Len(engines) :
                       /\ buildable(engines[i].factory)
                       /\ ret'.val = <<factory_engine_id(engines[i].factory)>>
                       /\ consulted[Len(consulted)] = engines[i].factory
                       /\ \A j \in 1..Len(engines) :
                            buildable(engines[j].factory) => engines[j].priority <= engines[i].priority
                  /\ \A k \in 1..(Len(consulted) - 1) : ~buildable(consulted[k])
             /\ \A k \in 1..(Len(consulted) - 1) :
                  \E p \in PriorityOf(consulted[k]), q \in PriorityOf(consulted[k + 1]) : p >= q]_vars

\* the engine returned is the third one consulted: the first factory was
\* unavailable or raised, and so did the second
C32_Witness ==
    /\ call.op = "create_best_engine"
    /\ ret.kind = "return"
    /\ Len(call.tried) = 3
    /\ call.args.broken # {}
    /\ call.invoked # call.tried

\* strings the engine adapters return on their own failure paths
C33_FailureMessages == {S_cnu, S_snc, S_rec, S_svc, S_err, S_fail, S_badkey}

\* C33: a failure message of an engine adapter is never accepted by the
\* router, so it is never returned with diagnostics success = true.
C33_FailureNeverAccepted ==
    (/\ call.op = "transcribe"
     /\ call.kinds # <<>>
     /\ call.result \in C33_FailureMessages)
        => ~(/\ call.kinds[Len(call.kinds)] = "accepted"
             /\ last_engine_info.success
             /\ ret = Returned(call.result))

\* C34: when the recorder hands over no audio data (None or no bytes) the
\* recording pipeline invokes no speech engine, saves no transcript and
\* hands no text to the inserter.
C34_NoAudioNoTranscript ==
    (/\ call.op = "process_recording"
     /\ (call.args.audio_data.is_none \/ call.args.audio_data.bytes = <<>>))
        => /\ call.invoked = <<>>
           /\ call.saved = <<>>
           /\ call.inserted = <<>>

\* the service has just received a press or a release callback
C35_Callback == service'.callbacks = service.callbacks + 1

\* C35: a press callback while recording and a release callback while not
\* recording change nothing; the recorder is started and stopped in strict
\* alternation, beginning with a start; process_recording runs once, inside
\* the call, for each release callback that ends a recording, and never
\* otherwise.
C35_StartStopAlternate ==
    [][C35_Callback =>
         LET ignored == \/ service'.last = "press" /\ service.is_recording
                        \/ service'.last = "release" /\ ~service.is_recording
             calls == service'.recorder_calls
         IN  /\ ignored =>
                  /\ service'.is_recording = service.is_recording
                  /\ service'.recorder_calls = service.recorder_calls
                  /\ service'.processed = service.processed
                  /\ call' = call
                  /\ ret' = ret
             /\ \A i \in 1..Len(calls) : calls[i] = IF i % 2 = 1 THEN "start" ELSE "stop"
             /\ service'.is_recording = (Len(calls) % 2 = 1)
             /\ service'.processed = Len(calls) \div 2
             /\ (service'.last = "release" /\ service.is_recording) =>
                  /\ service'.processed = service.processed + 1
                  /\ call'.op = "process_recording"
             /\ service'.last = "press" => (service'.processed = service.processed /\ call' = call)]_vars

\* four callbacks of which two were ignored: one recording was made
C35_Witness ==
    /\ service.callbacks = 4
    /\ service.recorder_calls = <<"start", "stop">>
    /\ service.processed = 1
    /\ call.op = "process_recording"

\* FnKeyHandler has just handled a key event
C36_KeyEvent == hotkey'.events = hotkey.events + 1

\* Cmd, Shift and Space are all held, by the events handled so far
C36_AllHeld(hk) == hk.cmd_pressed /\ hk.shift_pressed /\ hk.space_pressed

\* C36: the press callback fires only on a key event that makes Cmd, Shift
\* and Space all held, the release callback only on the first event after it
\* that releases one of them; a key event fires at most one callback, and
\* the callbacks alternate, beginning with press.
C36_CallbacksAlternate ==
    [][C36_KeyEvent =>
         LET pressed == hotkey'.presses - hotkey.presses
             released == hotkey'.releases - hotkey.releases
         IN  /\ pressed \in {0, 1}
             /\ released \in {0, 1}
             /\ pressed + released <= 1
             /\ pressed = 1 =>
                  /\ ~C36_AllHeld(hotkey)
                  /\ C36_AllHeld(hotkey')
                  /\ hotkey.presses = hotkey.releases
                  /\ service'.last = "press"
             /\ released = 1 =>
                  /\ C36_AllHeld(hotkey)
                  /\ ~C36_AllHeld(hotkey')
                  /\ hotkey.presses = hotkey.releases + 1
                  /\ service'.last = "release"
             /\ hotkey'.presses - hotkey'.releases \in {0, 1}
             /\ service'.callbacks = hotkey'.presses + hotkey'.releases]_vars

\* the combination was pressed, released and pressed again
C36_Witness ==
    /\ hotkey.presses = 2
    /\ hotkey.releases = 1
    /\ hotkey.hotkey_pressed
    /\ service.is_recording

\* process_recording has run
C37_Processed == call.op = "process_recording"

\* the positions of a step in the calls process_recording made
C37_At(step) == {i \in 1..Len(call.steps) : call.steps[i] = step}

C38_BothEnded(op) == \A t \in ThreadIds : threads.calls[t].pc = "done" /\ threads.calls[t].op = op

\* C38: after two concurrent transcribe_with_fallback calls, or two
\* concurrent process_with_best_llm calls, the diagnostics of the router is
\* the complete record that one of the two calls assigned.
C38_RecordOfOneCall ==
    /\ C38_BothEnded("speech") => \E t \in ThreadIds : threads.calls[t].wrote = <<last_engine_info>>
    /\ C38_BothEnded("llm") => \E t \in ThreadIds : threads.calls[t].wrote = <<last_llm_info>>

C39_NoRepeats(seq) == \A i, j \in 1..Len(seq) : seq[i] = seq[j] => i = j

C39_AtMostOnce ==
    call.op \in {"transcribe", "process_with_best_llm"} =>
        /\ C39_NoRepeats(call.tried)
        /\ C39_NoRepeats(call.invoked)
        /\ Len(call.invoked) <= Len(call.tried)
        /\ Len(call.tried) <= Len(call.cands)

\* C39: within one transcribe_with_fallback or process_with_best_llm call no
\* candidate is constructed or invoked twice, the invocations never outnumber
\* the candidates, and a call that entered its loop ends.
C39_NoRetry ==
    /\ []C39_AtMostOnce
    /\ (pc \in {"speech_loop", "llm_loop"}) ~> (pc = "idle")

\* a call that invoked every one of its candidates has ended in total failure
C39_Witness ==
    /\ pc = "idle"
    /\ call.op = "transcribe"
    /\ Len(call.cands) >= 2
    /\ call.invoked = call.cands
    /\ ret = Returned(ALL_FAILED)

====
